---- MODULE Spec2Model ----
(***************************************************************************)
(* The JACK-driven audio engine of Zrythm (src/src/audio/engine.c): the    *)
(* process callback, the buffer-size callback, the engine's port table,    *)
(* and the transport requests that other threads raise against it.         *)
(*                                                                         *)
(* Threads:                                                                *)
(*   - the JACK process thread runs jack_process_cb and, with the process  *)
(*     cycle suspended, jack_buffer_size_cb (rpc is its position);         *)
(*   - control threads call transport_request_roll/_pause at any time;     *)
(*   - one thread requests a pause and waits on TRANSPORT->paused (wpc);   *)
(*   - one thread mutates the port table under port_operation_lock (mpc).  *)
(***************************************************************************)
EXTENDS Integers, Sequences, FiniteSets, TLC

(* ------------------------------ bounds -------------------------------- *)

\* largest playhead position (frames) a cycle may start from
MaxPlayhead == 4
\* block lengths JACK may announce: 1..MaxBlock
MaxBlock == 2
\* ports ever allocated: 1..MaxPorts
MaxPorts == 3
\* ports registered by init_audio_engine
InitPorts == 2
\* channels of the mixer: 1..NumChannels, channel 1 is the master
NumChannels == 3
\* slots of a channel strip (MAX_PLUGINS of the program)
MaxPlugins == 1
\* cap on the count of the transport's 'paused' semaphore
MaxSem == 2
\* MIDI events JACK delivers in one cycle
MaxEvents == 1
\* loop region of the transport, [LoopStart, LoopEnd)
\* frames of the clip, channels of a clip, nudge distance, calls explored
ClipLen == 4
MaxChannels == 2
MaxNudge == 2
MaxCalls == 2
\* frames given to a plugin, and the latency a plugin reports
MaxFrames == 3
MaxLatency == 3
LoopStart == 1
LoopEnd == 3

\* regions that may be put in the lane, and plugins the scan finds
MaxRegions == 2
MaxScan == 2

(* ------------------------------ state --------------------------------- *)

VARIABLES
  run,                 \* AUDIO_ENGINE->run, the flag passed to the callback
  play_state,          \* TRANSPORT->play_state
  playhead,            \* TRANSPORT->playhead_pos, in frames
  loop,                \* transport loop enabled
  paused,              \* TRANSPORT->paused, a semaphore (its count)
  port_operation_lock, \* AUDIO_ENGINE->port_operation_lock (its count)
  block_length,        \* AUDIO_ENGINE->block_length
  engine_nframes,      \* AUDIO_ENGINE->nframes
  buf_size_set,        \* AUDIO_ENGINE->buf_size_set
  ports,               \* AUDIO_ENGINE->ports[0 .. num_ports-1]
  allocated,           \* ports ever created
  removed,             \* ports passed to engine_delete_port
  port_id,             \* port->id
  port_nframes,        \* port->nframes (length of port->buf)
  port_buf,            \* content of port->buf: "zero", "new" (written in
                       \* this cycle) or "old" (left from before)
  plugin_buf,          \* length of the LV2 port buffers of strip[c][j]
  strip,               \* channel->strip: the occupied slots per channel
  processed,           \* channel->processed / plugin->processed
  midi_in,             \* AUDIO_ENGINE->midi_in->midi_events
  jack_out,            \* frames copied to JACK's stereo out buffers
  rpc,                 \* position of the JACK process thread
  nframes,             \* the nframes argument of the running callback
  wpc,                 \* position of the thread waiting for a pause
  mpc,                 \* position of the thread mutating the port table
  \* history of the running cycle
  steps,               \* steps of jack_process_cb executed so far
  cleared,             \* port_clear_buffer calls per port
  proc_count,          \* process calls per processor
  proc_order,          \* processors in the order they were processed
  fb_read,             \* what the destination of the feedback send read
  entry_state,         \* play_state on entry
  entry_playhead,      \* playhead on entry
  boundary_state,      \* play_state as lines 139-147 stored or found it
  quiet,               \* no transport request since entry
  transitions,         \* executions of line 141
  posts,               \* executions of line 142
  wakeups,             \* returns from the wait on TRANSPORT->paused
  \* sample rate and tempo
  project,             \* PROJECT is set: a project is loaded
  bpm,                 \* TRANSPORT->bpm
  beats_per_bar,       \* TRANSPORT->beats_per_bar
  sample_rate,         \* AUDIO_ENGINE->sample_rate, 0 before the callback
  frames_per_tick,     \* AUDIO_ENGINE->frames_per_tick, in hundredths
  \* audio functions
  channels,            \* orig_clip->channels
  clip_frames,         \* orig_clip->frames, interleaved
  region_pos,          \* r->base.pos.frames
  nudge_frames,        \* frames of ARRANGER_SELECTIONS_DEFAULT_NUDGE_TICKS
  sel_start,           \* audio_sel->sel_start.frames
  sel_end,             \* audio_sel->sel_end.frames
  sel_pool_id,         \* audio_sel->pool_id, -1 when none
  pool,                \* AUDIO_POOL->clips
  af_calls,            \* calls of audio_function_apply
  af_type,             \* type argument of the last call
  af_ret,              \* its return value
  af_error,            \* the error it set
  af_setup,            \* what happened to its plugin before the run
  \* apply_plugin
  ap_pc,               \* position in apply_plugin
  ap_channels,         \* its channels argument
  ap_num,              \* its num_frames argument
  ap_src,              \* the frames it was given
  ap_frames,           \* the frames buffer, interleaved
  ap_i,                \* i, frames processed
  ap_step,             \* step
  ap_latency,          \* the local variable latency
  pl_latency,          \* pl->latency
  lv2_latency,         \* the latency the plugin reports now
  pl_stereo,           \* the plugin has two audio outputs
  pl_constant,         \* the plugin never changes its latency
  pl_hist,             \* the input samples the plugin was run on
  ap_oob,              \* an index outside the frames buffer was used
  ap_ret,              \* return value
  \* the exporter and the project it renders
  proj_routing,        \* where the notes are: "ins_region" or "midi_to_ins"
  ins_insert,          \* the instrument track has an insert
  ins_gain,            \* its fader amp, One is unity
  markers,             \* the start and end markers of the song, in frames
  ex_pc,               \* position of the call of exporter_export
  exporting,           \* AUDIO_ENGINE->exporting
  ex_settings,         \* ExportSettings and the tracks marked for bounce
  ex_clock,            \* the offline clock, in frames
  ex_out,              \* the samples rendered so far
  ex_main,             \* the instrument track's output on the main path
  ex_ret,              \* return value of exporter_export
  ex_found,            \* the transport as the call found it
  ex_cancelled,        \* settings.progress_info.cancelled
  ex_progress,         \* settings.progress_info.progress, One is 1.0
  ex_status,           \* what the export reported: "none", "success" or
                       \* "cancelled"
  ex_file,             \* the output file: "none", "partial" or "complete"
  ex_frames,           \* the positions rendered so far
  ex_ref,              \* the settings and samples of an earlier export
  ex_region,           \* the region created from the bounce
  poll_pc,             \* position of the thread that started the export
  \* a track lane and the clip editor
  lane_regions,        \* self->regions[0 .. regions_size-1], 0 where no
                       \* region is stored
  num_regions,         \* self->num_regions
  region_id,           \* region->id: lane_pos and idx
  ce_id,               \* CLIP_EDITOR->region_id, <<>> when it has no region
  lane_active,         \* the lane is in the active project and is not
                       \* the auditioner's
  lane_op,             \* the last call on the lane
  lane_gap,            \* a region was inserted past the end of the lane
  lane_fault,          \* memory outside the array or a null region was
                       \* accessed
  \* the application's start
  first_run,           \* the setting "first-run"
  open_filename,       \* ZRYTHM->open_filename is set
  init_finished,       \* self->init_finished
  init_pc,             \* position of init_thread
  scan_pc,             \* position of scan_plugins_after_first_run_thread
  scanned,             \* plugins scanned so far
  gtk_pc,              \* position of the GTK thread
  idle_sources,        \* idle_func sources in the main loop
  prompts,             \* activations of "prompt_for_project" since the
                       \* assistant was applied
  app_view             \* what the application shows

transportVars == <<run, play_state, playhead, loop, paused>>
engineVars == <<port_operation_lock, block_length, engine_nframes,
                buf_size_set>>
portVars == <<ports, allocated, removed, port_id, port_nframes, port_buf>>
mixerVars == <<plugin_buf, strip, processed>>
jackVars == <<midi_in, jack_out>>
threadVars == <<rpc, nframes, wpc, mpc>>
cycleVars == <<steps, cleared, proc_count, proc_order, fb_read, entry_state,
               entry_playhead, boundary_state, quiet>>
semVars == <<transitions, posts, wakeups>>

rateVars == <<project, bpm, beats_per_bar, sample_rate, frames_per_tick>>

\* the state the process cycle never touches
clipVars == <<channels, clip_frames, region_pos, nudge_frames>>
selVars == <<sel_start, sel_end, sel_pool_id>>
callVars == <<af_calls, af_type, af_ret, af_error, af_setup>>
functionVars == <<clipVars, selVars, pool, callVars>>

applyVars == <<ap_pc, ap_channels, ap_num, ap_src, ap_frames, ap_i, ap_step,
               ap_latency, ap_oob, ap_ret>>
pluginStateVars == <<pl_latency, lv2_latency, pl_stereo, pl_constant, pl_hist>>
pluginVars == <<applyVars, pluginStateVars>>

projectVars == <<proj_routing, ins_insert, ins_gain, markers>>
sessionVars == <<ex_cancelled, ex_progress, ex_status, ex_file, ex_frames,
                 ex_ref, ex_region, poll_pc>>
exportVars == <<projectVars, ex_pc, exporting, ex_settings, ex_clock, ex_out,
                ex_main, ex_ret, ex_found, sessionVars>>

laneVars == <<lane_regions, num_regions, region_id, ce_id, lane_active,
              lane_op, lane_gap, lane_fault>>
appVars == <<first_run, open_filename, init_finished, init_pc, scan_pc,
             scanned, gtk_pc, idle_sources, prompts, app_view>>
sideVars == <<laneVars, appVars>>

otherVars == <<rateVars, functionVars, pluginVars, exportVars, sideVars>>

\* the state of the process cycle and of the threads around it
cycleSide == <<transportVars, engineVars, portVars, mixerVars, jackVars,
               threadVars, cycleVars, semVars>>

\* the same without the transport
cycleRest == <<engineVars, portVars, mixerVars, jackVars, threadVars,
               cycleVars, semVars>>

vars == <<transportVars, engineVars, portVars, mixerVars, jackVars,
          threadVars, cycleVars, semVars, otherVars>>

(* ---------------------------- constants ------------------------------- *)

PlayStates ==
  {"STOPPED", "ROLL_REQUESTED", "ROLLING", "PAUSE_REQUESTED", "PAUSED"}

PortNames == 1..MaxPorts
Channels == 1..NumChannels
Slots == 1..MaxPlugins
BlockSizes == 1..MaxBlock

\* a processor is a channel <<c, 0>> or the plugin <<c, j>> in slot j
ProcIds == Channels \X (0..MaxPlugins)

\* MIDI status bytes (type nibble) and event sizes JACK may deliver
NOTE_ON == 144
NOTE_OFF == 128
CONTROL_CHANGE == 176
PITCH_BEND == 224
MidiTypes == {NOTE_ON, NOTE_OFF, CONTROL_CHANGE, PITCH_BEND}
MidiSizes == {2, 3}
MidiEvent == [type : MidiTypes, size : MidiSizes]

RECURSIVE SeqsUpTo(_, _)
SeqsUpTo(S, n) ==
  IF n = 0 THEN {<<>>}
  ELSE LET shorter == SeqsUpTo(S, n - 1)
       IN shorter \cup {Append(s, x) : s \in {t \in shorter : Len(t) = n - 1},
                                       x \in S}

Range(s) == {s[i] : i \in 1..Len(s)}

\* the steps of a running cycle, in the order of lines 149-237
CycleSteps ==
  <<"lock", "clear", "midi", "reset", "mix", "copy", "unlock", "advance">>

IsPrefix(s, t) == Len(s) <= Len(t) /\ \A i \in 1..Len(s) : s[i] = t[i]


(* ------------------- transport (transport.c, not in src) --------------- *)

\* transport_update_playhead: the playhead moves only while rolling, and
\* wraps at the end of the loop region when looping is enabled
TransportUpdatePlayhead(pos, state, n) ==
  IF state # "ROLLING" THEN pos
  ELSE IF loop /\ pos < LoopEnd /\ pos + n >= LoopEnd
       THEN LoopStart + ((pos + n) - LoopEnd)
       ELSE pos + n

(* ----------------------- mixer (mixer.c, not in src) ------------------- *)

\* channels sending into channel c: every other channel feeds the master,
\* and a channel also feeds every channel declared before it
Senders(c) == {d \in Channels : d > c}

Max(S) == CHOOSE x \in S : \A y \in S : y <= x

\* the processors whose output processor p consumes
Upstream(p) ==
  LET c == p[1]
      j == p[2]
      lower == IF j = 0 THEN strip[c] ELSE {k \in strip[c] : k < j}
  IN IF lower = {} THEN {<<d, 0>> : d \in Senders(c)}
     ELSE {<<c, Max(lower)>>}

\* the processors that exist: every channel and every occupied strip slot
Processors ==
  {<<c, 0>> : c \in Channels} \cup
  {p \in ProcIds : p[2] # 0 /\ p[2] \in strip[p[1]]}

\* declaration order of processors
Before(p, q) == p[1] < q[1] \/ (p[1] = q[1] /\ p[2] <= q[2])
FirstOf(S) == CHOOSE p \in S : \A q \in S : Before(p, q)

\* depth-first visit: a processed processor is skipped; otherwise its
\* upstream senders are processed first, then the processor itself (each
\* intermediate result is bound once, as the value it has)
RECURSIVE Visit(_, _), VisitAll(_, _)
Visit(p, st) ==
  IF st.processed[p] THEN st
  ELSE CHOOSE done \in
         {[processed |-> [up.processed EXCEPT ![p] = TRUE],
           count |-> [up.count EXCEPT ![p] = @ + 1],
           order |-> Append(up.order, p)] :
            up \in {VisitAll(Upstream(p), st)}} : TRUE
VisitAll(S, st) ==
  IF S = {} THEN st
  ELSE CHOOSE done \in
         UNION {{VisitAll(S \ {p}, next) : next \in {Visit(p, st)}} :
                  p \in {FirstOf(S)}} : TRUE

\* mixer_process: visit every channel in declaration order
MixerProcess(st) == VisitAll({<<c, 0>> : c \in Channels}, st)

\* a feedback send: the channel processed first in a cycle (the last one
\* declared) also takes the output of the channel processed last; the edge
\* is not in Upstream, so the visit never follows it, and the destination
\* reads the source's port as it finds it when it is processed
FeedbackRead(buf, tbl) == IF tbl = <<>> THEN "none" ELSE buf[tbl[1]]

(* -------------------------- port table -------------------------------- *)

num_ports == Len(ports)

\* the table after lines 433-437: entries from port->id on move down one
\* place and the last entry is dropped
RemoveAt(tbl, id) ==
  [i \in 1..(Len(tbl) - 1) |-> IF i - 1 < id THEN tbl[i] ELSE tbl[i + 1]]


(* ---------------- jack_process_cb, engine.c lines 128-244 -------------- *)

NoProcHistory == [p \in ProcIds |-> 0]
NoClears == [p \in PortNames |-> 0]

\* data written during the previous cycle is old data in this one
Aged(buf) == [p \in PortNames |-> IF buf[p] = "new" THEN "old" ELSE buf[p]]

\* lines 132-134 with the run flag clear: return 0 at once
RTSkip ==
  /\ rpc = "idle"
  /\ ~run
  /\ UNCHANGED vars

\* lines 132-137 with the run flag set; JACK passes the block length it
\* announced last
RTEnter ==
  /\ rpc = "idle"
  /\ run
  /\ playhead <= MaxPlayhead
  /\ rpc' = "test_pause"
  /\ nframes' = block_length
  /\ steps' = <<>>
  /\ cleared' = NoClears
  /\ proc_count' = NoProcHistory
  /\ proc_order' = <<>>
  /\ fb_read' = "none"
  /\ entry_state' = play_state
  /\ entry_playhead' = playhead
  /\ boundary_state' = "none"
  /\ quiet' = TRUE
  /\ port_buf' = Aged(port_buf)
  /\ jack_out' = 0
  /\ UNCHANGED <<transportVars, engineVars, mixerVars, semVars, otherVars>>
  /\ UNCHANGED <<ports, allocated, removed, port_id, port_nframes>>
  /\ UNCHANGED <<midi_in, wpc, mpc>>

\* line 139: the test for a requested pause
RTTestPause ==
  /\ rpc = "test_pause"
  /\ rpc' = IF play_state = "PAUSE_REQUESTED" THEN "set_paused"
            ELSE "test_roll"
  /\ UNCHANGED <<transportVars, engineVars, portVars, mixerVars, jackVars,
                 nframes, wpc, mpc, cycleVars, semVars, otherVars>>

\* line 141
RTSetPaused ==
  /\ rpc = "set_paused"
  /\ play_state' = "PAUSED"
  /\ boundary_state' = "PAUSED"
  /\ transitions' = transitions + 1
  /\ rpc' = "post_paused"
  /\ UNCHANGED <<run, playhead, loop, paused, engineVars, portVars,
                 mixerVars, jackVars, nframes, wpc, mpc, steps, cleared,
                 proc_count, proc_order, fb_read, entry_state,
                 entry_playhead, quiet,
                 posts, wakeups, otherVars>>

\* line 142: zix_sem_post (&TRANSPORT->paused)
RTPostPaused ==
  /\ rpc = "post_paused"
  /\ paused' = paused + 1
  /\ posts' = posts + 1
  /\ rpc' = "lock"
  /\ UNCHANGED <<run, play_state, playhead, loop, engineVars, portVars,
                 mixerVars, jackVars, nframes, wpc, mpc, cycleVars,
                 transitions, wakeups, otherVars>>

\* RTTestRoll testing for the wrong state
RTTestRoll_WrongState ==
  /\ rpc = "test_roll"
  /\ IF play_state = "STOPPED"
     THEN /\ rpc' = "set_rolling"
          /\ UNCHANGED boundary_state
     ELSE /\ rpc' = "lock"
          /\ boundary_state' = play_state
  /\ UNCHANGED <<transportVars, engineVars, portVars, mixerVars, jackVars,
                 nframes, wpc, mpc, steps, cleared, proc_count, proc_order,
                 fb_read, entry_state, entry_playhead, quiet, semVars,
                 otherVars>>

\* line 144: the test for a requested roll
RTTestRoll ==
  /\ rpc = "test_roll"
  /\ IF play_state = "ROLL_REQUESTED"
     THEN /\ rpc' = "set_rolling"
          /\ UNCHANGED boundary_state
     ELSE /\ rpc' = "lock"
          /\ boundary_state' = play_state
  /\ UNCHANGED <<transportVars, engineVars, portVars, mixerVars, jackVars,
                 nframes, wpc, mpc, steps, cleared, proc_count, proc_order,
                 fb_read, entry_state, entry_playhead, quiet, semVars,
                 otherVars>>

\* RTSetRolling storing the state it found
RTSetRolling_NoStore ==
  /\ rpc = "set_rolling"
  /\ boundary_state' = play_state
  /\ rpc' = "lock"
  /\ UNCHANGED <<transportVars, engineVars, portVars, mixerVars, jackVars,
                 nframes, wpc, mpc, steps, cleared, proc_count, proc_order,
                 fb_read, entry_state, entry_playhead, quiet, semVars,
                 otherVars>>

\* line 146
RTSetRolling ==
  /\ rpc = "set_rolling"
  /\ play_state' = "ROLLING"
  /\ boundary_state' = "ROLLING"
  /\ rpc' = "lock"
  /\ UNCHANGED <<run, playhead, loop, paused, engineVars, portVars,
                 mixerVars, jackVars, nframes, wpc, mpc, steps, cleared,
                 proc_count, proc_order, fb_read, entry_state,
                 entry_playhead, quiet,
                 semVars, otherVars>>

\* RTLock going on without waiting for the semaphore
RTLock_NoWait ==
  /\ rpc = "lock"
  /\ steps' = Append(steps, "lock")
  /\ rpc' = "clear"
  /\ UNCHANGED <<transportVars, engineVars, portVars, mixerVars, jackVars,
                 nframes, wpc, mpc, cleared, proc_count, proc_order, fb_read,
                 entry_state, entry_playhead, boundary_state, quiet,
                 semVars, otherVars>>

\* line 149: zix_sem_wait (&AUDIO_ENGINE->port_operation_lock)
RTLock ==
  /\ rpc = "lock"
  /\ port_operation_lock > 0
  /\ port_operation_lock' = port_operation_lock - 1
  /\ steps' = Append(steps, "lock")
  /\ rpc' = "clear"
  /\ UNCHANGED <<transportVars, block_length, engine_nframes, buf_size_set,
                 portVars, mixerVars, jackVars, nframes, wpc, mpc, cleared,
                 proc_count, proc_order, fb_read, entry_state, entry_playhead,
                 boundary_state, quiet, semVars, otherVars>>

\* RTClear with the loop stopping one entry early
RTClear_SkipsLast ==
  LET some == {ports[i] : i \in 1..(Len(ports) - 1)}
  IN /\ rpc = "clear"
     /\ port_buf' = [p \in PortNames |->
                       IF p \in some THEN "zero" ELSE port_buf[p]]
     /\ cleared' = [p \in PortNames |->
                       IF p \in some THEN cleared[p] + 1 ELSE cleared[p]]
     /\ midi_in' = <<>>
     /\ steps' = Append(steps, "clear")
     /\ rpc' = "midi"
     /\ UNCHANGED <<transportVars, engineVars, ports, allocated, removed,
                    port_id, port_nframes, mixerVars, jack_out, nframes,
                    wpc, mpc, proc_count, proc_order, fb_read, entry_state,
                    entry_playhead, boundary_state, quiet, semVars, otherVars>>

\* lines 151-156: port_clear_buffer on every entry of the port table; the
\* MIDI-in port is one of them, its event list is reset
RTClear ==
  /\ rpc = "clear"
  /\ port_buf' = [p \in PortNames |->
                    IF p \in Range(ports) THEN "zero" ELSE port_buf[p]]
  /\ cleared' = [p \in PortNames |->
                    IF p \in Range(ports) THEN cleared[p] + 1
                    ELSE cleared[p]]
  /\ midi_in' = <<>>
  /\ steps' = Append(steps, "clear")
  /\ rpc' = "midi"
  /\ UNCHANGED <<transportVars, engineVars, ports, allocated, removed,
                 port_id, port_nframes, mixerVars, jack_out,
                 nframes, wpc, mpc, proc_count, proc_order, fb_read,
                 entry_state,
                 entry_playhead, boundary_state, quiet, semVars, otherVars>>

\* the asserts of lines 178, 182, 186
AssertsHold(events) ==
  \A i \in 1..Len(events) :
    events[i].type \in {NOTE_ON, NOTE_OFF, CONTROL_CHANGE}
      => events[i].size = 3

\* lines 160-195: the events JACK delivers for the cycle, one of `events',
\* are stored in the engine's MIDI-in port; a failed assert aborts the
\* program, unless the build defines NDEBUG and compiles the asserts out
RTMidi(events) ==
  /\ rpc = "midi"
  /\ \E evs \in events :
       /\ midi_in' = evs
       /\ rpc' \in IF AssertsHold(evs) THEN {"reset"}
                   ELSE {"reset", "aborted"}
  /\ steps' = Append(steps, "midi")
  /\ UNCHANGED <<transportVars, engineVars, portVars, mixerVars, jack_out,
                 nframes, wpc, mpc, cleared, proc_count, proc_order, fb_read,
                 entry_state, entry_playhead, boundary_state, quiet,
                 semVars, otherVars>>

\* RTReset clearing the flags of the channels only
RTReset_ChannelsOnly ==
  /\ rpc = "reset"
  /\ processed' = [p \in ProcIds |->
                     IF p[2] = 0 THEN FALSE ELSE processed[p]]
  /\ steps' = Append(steps, "reset")
  /\ rpc' = "mix"
  /\ UNCHANGED <<transportVars, engineVars, portVars, plugin_buf, strip,
                 jackVars, nframes, wpc, mpc, cleared, proc_count,
                 proc_order, fb_read, entry_state, entry_playhead,
                 boundary_state,
                 quiet, semVars, otherVars>>

\* lines 197-209: every channel and every plugin in its strip is set to
\* unprocessed
RTReset ==
  /\ rpc = "reset"
  /\ processed' = [p \in ProcIds |->
                     IF p \in Processors THEN FALSE ELSE processed[p]]
  /\ steps' = Append(steps, "reset")
  /\ rpc' = "mix"
  /\ UNCHANGED <<transportVars, engineVars, portVars, plugin_buf, strip,
                 jackVars, nframes, wpc, mpc, cleared, proc_count,
                 proc_order, fb_read, entry_state, entry_playhead,
                 boundary_state,
                 quiet, semVars, otherVars>>

\* line 214: mixer_process (nframes); the processors write their ports
RTMix ==
  /\ rpc = "mix"
  /\ LET st == MixerProcess([processed |-> processed,
                             count |-> proc_count,
                             order |-> proc_order])
     IN /\ processed' = st.processed
        /\ proc_count' = st.count
        /\ proc_order' = st.order
  /\ fb_read' = FeedbackRead(port_buf, ports)
  /\ port_buf' = [p \in PortNames |->
                    IF p \in Range(ports) THEN "new" ELSE port_buf[p]]
  /\ steps' = Append(steps, "mix")
  /\ rpc' = "copy"
  /\ UNCHANGED <<transportVars, engineVars, ports, allocated, removed,
                 port_id, port_nframes, plugin_buf, strip, jackVars,
                 nframes, wpc, mpc, cleared, entry_state, entry_playhead,
                 boundary_state, quiet, semVars, otherVars>>

\* RTCopy going on to the playhead without releasing the lock
RTCopy_KeepsLock ==
  /\ rpc = "copy"
  /\ jack_out' = nframes
  /\ steps' = Append(steps, "copy")
  /\ rpc' = "advance"
  /\ UNCHANGED <<transportVars, engineVars, portVars, mixerVars, midi_in,
                 nframes, wpc, mpc, cleared, proc_count,
                 proc_order, fb_read, entry_state, entry_playhead,
                 boundary_state,
                 quiet, semVars, otherVars>>

\* lines 216-232: nframes frames of the master's stereo out go to JACK
RTCopy ==
  /\ rpc = "copy"
  /\ jack_out' = nframes
  /\ steps' = Append(steps, "copy")
  /\ rpc' = "unlock"
  /\ UNCHANGED <<transportVars, engineVars, portVars, mixerVars, midi_in,
                 nframes, wpc, mpc, cleared, proc_count,
                 proc_order, fb_read, entry_state, entry_playhead,
                 boundary_state,
                 quiet, semVars, otherVars>>

\* line 234: zix_sem_post (&AUDIO_ENGINE->port_operation_lock)
RTUnlock ==
  /\ rpc = "unlock"
  /\ port_operation_lock' = port_operation_lock + 1
  /\ steps' = Append(steps, "unlock")
  /\ rpc' = "advance"
  /\ UNCHANGED <<transportVars, block_length, engine_nframes, buf_size_set,
                 portVars, mixerVars, jackVars, nframes, wpc, mpc, cleared,
                 proc_count, proc_order, fb_read, entry_state, entry_playhead,
                 boundary_state, quiet, semVars, otherVars>>

\* RTAdvance adding the frames whatever the play state
RTAdvance_Unguarded ==
  /\ rpc = "advance"
  /\ playhead' = playhead + nframes
  /\ steps' = Append(steps, "advance")
  /\ rpc' = "return"
  /\ UNCHANGED <<run, play_state, loop, paused, engineVars, portVars,
                 mixerVars, jackVars, nframes, wpc, mpc, cleared,
                 proc_count, proc_order, fb_read, entry_state, entry_playhead,
                 boundary_state, quiet, semVars, otherVars>>

\* RTAdvance counting the frames from the start, not from the playhead
RTAdvance_FromStart ==
  /\ rpc = "advance"
  /\ playhead' = TransportUpdatePlayhead(0, play_state, nframes)
  /\ steps' = Append(steps, "advance")
  /\ rpc' = "return"
  /\ UNCHANGED <<run, play_state, loop, paused, engineVars, portVars,
                 mixerVars, jackVars, nframes, wpc, mpc, cleared,
                 proc_count, proc_order, fb_read, entry_state, entry_playhead,
                 boundary_state, quiet, semVars, otherVars>>

\* lines 236-237: transport_update_playhead (nframes)
RTAdvance ==
  /\ rpc = "advance"
  /\ playhead' = TransportUpdatePlayhead(playhead, play_state, nframes)
  /\ steps' = Append(steps, "advance")
  /\ rpc' = "return"
  /\ UNCHANGED <<run, play_state, loop, paused, engineVars, portVars,
                 mixerVars, jackVars, nframes, wpc, mpc, cleared,
                 proc_count, proc_order, fb_read, entry_state, entry_playhead,
                 boundary_state, quiet, semVars, otherVars>>

\* line 243: return 0
RTReturn ==
  /\ rpc = "return"
  /\ rpc' = "idle"
  /\ UNCHANGED <<transportVars, engineVars, portVars, mixerVars, jackVars,
                 nframes, wpc, mpc, cycleVars, semVars, otherVars>>

ProcessCycle(events) ==
  \/ RTSkip \/ RTEnter
  \/ RTTestPause \/ RTSetPaused \/ RTPostPaused
  \/ RTTestRoll \/ RTSetRolling
  \/ RTLock \/ RTClear \/ RTMidi(events) \/ RTReset \/ RTMix \/ RTCopy
  \/ RTUnlock \/ RTAdvance \/ RTReturn


\* the program runs until an assert aborts it
Alive == rpc # "aborted"

(* -------------- jack_buffer_size_cb, engine.c lines 76-118 ------------- *)
(* JACK runs the callback in the process thread, with the process cycle   *)
(* suspended.                                                              *)

\* lines 80-88
BufSizeEnter(n) ==
  /\ rpc = "idle"
  /\ block_length' = n
  /\ buf_size_set' = TRUE
  /\ nframes' = n
  /\ rpc' = "bs_realloc"
  /\ UNCHANGED <<transportVars, port_operation_lock, engine_nframes,
                 portVars, mixerVars, jackVars, wpc, mpc, cycleVars,
                 semVars, otherVars>>

\* BufSizeRealloc with the loop stopping one entry early
BufSizeRealloc_SkipsLast ==
  LET some == {ports[i] : i \in 1..(Len(ports) - 1)}
  IN /\ rpc = "bs_realloc"
     /\ port_nframes' = [p \in PortNames |->
                           IF p \in some THEN nframes ELSE port_nframes[p]]
     /\ port_buf' = [p \in PortNames |->
                       IF p \in some THEN "old" ELSE port_buf[p]]
     /\ rpc' = "bs_plugins"
     /\ UNCHANGED <<transportVars, engineVars, ports, allocated, removed,
                    port_id, mixerVars, jackVars, nframes, wpc, mpc,
                    cycleVars, semVars, otherVars>>

\* lines 90-98: every entry of the port table gets a buffer of nframes
\* frames; realloc leaves its content unspecified, it is not zero-filled
BufSizeRealloc ==
  /\ rpc = "bs_realloc"
  /\ port_nframes' = [p \in PortNames |->
                        IF p \in Range(ports) THEN nframes
                        ELSE port_nframes[p]]
  /\ port_buf' = [p \in PortNames |->
                    IF p \in Range(ports) THEN "old" ELSE port_buf[p]]
  /\ rpc' = "bs_plugins"
  /\ UNCHANGED <<transportVars, engineVars, ports, allocated, removed,
                 port_id, mixerVars, jackVars, nframes, wpc, mpc, cycleVars,
                 semVars, otherVars>>

\* lines 99-117: the buffers of every plugin in a strip are allocated
\* again for the block length, then AUDIO_ENGINE->nframes is set
BufSizePlugins ==
  /\ rpc = "bs_plugins"
  /\ plugin_buf' = [p \in ProcIds |->
                      IF p \in Processors /\ p[2] # 0 THEN block_length
                      ELSE plugin_buf[p]]
  /\ engine_nframes' = nframes
  /\ rpc' = "idle"
  /\ UNCHANGED <<transportVars, port_operation_lock, block_length,
                 buf_size_set, portVars, strip, processed, jackVars,
                 nframes, wpc, mpc, cycleVars, semVars, otherVars>>

BufferSizeCallback ==
  \/ \E n \in BlockSizes : BufSizeEnter(n)
  \/ BufSizeRealloc
  \/ BufSizePlugins

(* ---------- transport requests (transport.c, not in src) --------------- *)

\* at most MaxSem pause transitions are taken in a behaviour
MayRequestPause ==
  transitions + (IF rpc = "set_paused" THEN 1 ELSE 0) < MaxSem

\* transport_request_roll: records the request in play_state
RequestRoll ==
  /\ Alive
  /\ play_state' = "ROLL_REQUESTED"
  /\ quiet' = FALSE
  /\ UNCHANGED <<run, playhead, loop, paused, engineVars, portVars,
                 mixerVars, jackVars, threadVars, steps, cleared,
                 proc_count, proc_order, fb_read, entry_state, entry_playhead,
                 boundary_state, semVars, otherVars>>

\* transport_request_pause: records the request in play_state
RequestPause ==
  /\ Alive
  /\ MayRequestPause
  /\ play_state' = "PAUSE_REQUESTED"
  /\ quiet' = FALSE
  /\ UNCHANGED <<run, playhead, loop, paused, engineVars, portVars,
                 mixerVars, jackVars, threadVars, steps, cleared,
                 proc_count, proc_order, fb_read, entry_state, entry_playhead,
                 boundary_state, semVars, otherVars>>

\* a thread requests a pause and then waits for it to take effect
WaiterRequest ==
  /\ Alive
  /\ wpc = "idle"
  /\ MayRequestPause
  /\ play_state' = "PAUSE_REQUESTED"
  /\ quiet' = FALSE
  /\ wpc' = "waiting"
  /\ UNCHANGED <<run, playhead, loop, paused, engineVars, portVars,
                 mixerVars, jackVars, rpc, nframes, mpc, steps, cleared,
                 proc_count, proc_order, fb_read, entry_state, entry_playhead,
                 boundary_state, semVars, otherVars>>

\* zix_sem_wait (&TRANSPORT->paused) returns
WaiterWake ==
  /\ Alive
  /\ wpc = "waiting"
  /\ paused > 0
  /\ paused' = paused - 1
  /\ wakeups' = wakeups + 1
  /\ wpc' = "resumed"
  /\ UNCHANGED <<run, play_state, playhead, loop, engineVars, portVars,
                 mixerVars, jackVars, rpc, nframes, mpc, cycleVars,
                 transitions, posts, otherVars>>

\* the thread goes on with what it paused the transport for
WaiterDone ==
  /\ Alive
  /\ wpc = "resumed"
  /\ wpc' = "idle"
  /\ UNCHANGED <<transportVars, engineVars, portVars, mixerVars, jackVars,
                 rpc, nframes, mpc, cycleVars, semVars, otherVars>>

Waiter == WaiterRequest \/ WaiterWake \/ WaiterDone

\* the engine's run flag is set and cleared by the application
SetRun ==
  /\ Alive
  /\ run' = ~run
  /\ UNCHANGED <<play_state, playhead, loop, paused, engineVars, portVars,
                 mixerVars, jackVars, threadVars, cycleVars, semVars,
                 otherVars>>

(* ------- port table mutation under the port operation lock ------------- *)

\* the mutating thread takes the lock (callers of port_new/port_delete)
MutLock ==
  /\ Alive
  /\ mpc = "idle"
  /\ port_operation_lock > 0
  /\ port_operation_lock' = port_operation_lock - 1
  /\ mpc' = "locked"
  /\ UNCHANGED <<transportVars, block_length, engine_nframes, buf_size_set,
                 portVars, mixerVars, jackVars, rpc, nframes, wpc,
                 cycleVars, semVars, otherVars>>

\* port_new: a zero-filled buffer of the current block length, registered
\* at the end of the table with id = its index
PortNew(p) ==
  /\ ports' = Append(ports, p)
  /\ allocated' = allocated \cup {p}
  /\ port_id' = [port_id EXCEPT ![p] = num_ports]
  /\ port_nframes' = [port_nframes EXCEPT ![p] = block_length]
  /\ port_buf' = [port_buf EXCEPT ![p] = "zero"]
  /\ UNCHANGED removed

MutCreate ==
  /\ Alive
  /\ mpc = "locked"
  /\ \E p \in PortNames \ allocated :
       /\ \A q \in PortNames \ allocated : p <= q
       /\ PortNew(p)
  /\ UNCHANGED <<transportVars, engineVars, mixerVars, jackVars,
                 threadVars, cycleVars, semVars, otherVars>>

\* engine_delete_port, lines 430-438: the entry at index port->id leaves
\* the table. The fields of a port are followed while it is in the table.
EngineDeletePort(p) ==
  LET tbl == RemoveAt(ports, port_id[p])
      gone == Range(ports) \ Range(tbl)
  IN /\ ports' = tbl
     /\ removed' = removed \cup {p}
     /\ port_id' = [port_id EXCEPT ![p] = 0]
     /\ port_nframes' = [q \in PortNames |->
                           IF q \in gone THEN 0 ELSE port_nframes[q]]
     /\ port_buf' = [q \in PortNames |->
                       IF q \in gone THEN "zero" ELSE port_buf[q]]
     /\ cleared' = [q \in PortNames |->
                      IF q \in gone THEN 0 ELSE cleared[q]]
     /\ UNCHANGED allocated

MutDelete ==
  /\ Alive
  /\ mpc = "locked"
  /\ \E p \in allocated \ removed : EngineDeletePort(p)
  /\ UNCHANGED <<transportVars, engineVars, mixerVars, jackVars,
                 threadVars, steps, proc_count, proc_order, fb_read,
                 entry_state,
                 entry_playhead, boundary_state, quiet, semVars, otherVars>>

\* the mutating thread releases the lock
MutUnlock ==
  /\ Alive
  /\ mpc = "locked"
  /\ port_operation_lock' = port_operation_lock + 1
  /\ mpc' = "idle"
  /\ UNCHANGED <<transportVars, block_length, engine_nframes, buf_size_set,
                 portVars, mixerVars, jackVars, rpc, nframes, wpc,
                 cycleVars, semVars, otherVars>>

Mutator == MutLock \/ MutCreate \/ MutDelete \/ MutUnlock

\* zix_sem_wait in the mutating thread finds the semaphore at 0: it blocks
MutWait ==
  /\ Alive
  /\ mpc = "idle"
  /\ port_operation_lock = 0
  /\ mpc' = "waiting"
  /\ UNCHANGED <<transportVars, engineVars, portVars, mixerVars, jackVars,
                 rpc, nframes, wpc, cycleVars, semVars, otherVars>>

\* the blocked zix_sem_wait returns once it finds the semaphore above 0;
\* a post hands the semaphore to nobody, whoever decrements first has it
MutWake ==
  /\ Alive
  /\ mpc = "waiting"
  /\ port_operation_lock > 0
  /\ port_operation_lock' = port_operation_lock - 1
  /\ mpc' = "locked"
  /\ UNCHANGED <<transportVars, block_length, engine_nframes, buf_size_set,
                 portVars, mixerVars, jackVars, rpc, nframes, wpc,
                 cycleVars, semVars, otherVars>>

(* ----------------- sample rate, engine.c lines 49-74 ------------------- *)

\* the arguments of line 73, used when no project is loaded
DefaultBeats == 4
DefaultBpm == 120
DefaultRate == 44000

\* transport.h (not in src)
TICKS_PER_BAR == 3840

\* sample rates JACK reports, and the tempos and meters of a project
Rates == {44000, 44100, 48000}
Tempos == {120, 140}
Meters == {3, 4}

\* lines 53-56: (sample_rate * 60.f * beats_per_bar) /
\* (bpm * TICKS_PER_BAR); the float is kept to hundredths
EngineUpdateFramesPerTick(beats, tempo, rate) ==
  (rate * 60 * beats * 100) \div (tempo * TICKS_PER_BAR)

\* lines 61-74
JackSampleRateCb(rate) ==
  /\ sample_rate' = rate
  /\ frames_per_tick' =
       IF project
       THEN EngineUpdateFramesPerTick(beats_per_bar, bpm, rate)
       ELSE EngineUpdateFramesPerTick(DefaultBeats, DefaultBpm, DefaultRate)
  /\ UNCHANGED <<project, bpm, beats_per_bar>>

\* JACK reports a sample rate
SampleRateCallback ==
  /\ \E rate \in Rates : JackSampleRateCb(rate)
  /\ UNCHANGED <<cycleSide, functionVars, pluginVars, exportVars, sideVars>>

(* ------------- audio functions, audio_function.c lines 340-603 --------- *)

FunctionTypes ==
  {"INVERT", "NORMALIZE_RMS", "NORMALIZE_LUFS", "NUDGE_LEFT", "NUDGE_RIGHT",
   "REVERSE", "INVALID"}

\* r->base.end_pos.frames: the region spans the clip
region_end == region_pos + ClipLen

\* dsp_copy (&dest[doff], &src[soff], count), offsets counted from 0
DspCopy(dest, doff, src, soff, count) ==
  [k \in 1..Len(dest) |->
     IF k - 1 >= doff /\ k - 1 < doff + count
     THEN src[(k - 1 - doff) + soff + 1]
     ELSE dest[k]]

\* dsp_fill (&dest[off], val, count)
DspFill(dest, off, val, count) ==
  [k \in 1..Len(dest) |->
     IF k - 1 >= off /\ k - 1 < off + count THEN val ELSE dest[k]]

\* DspMulK2 leaving the last sample alone
DspMulK2_SkipsLast(dest, k, count) ==
  [i \in 1..Len(dest) |-> IF i < count THEN dest[i] * k ELSE dest[i]]

\* dsp_mul_k2 (&dest[0], k, count)
DspMulK2(dest, k, count) ==
  [i \in 1..Len(dest) |-> IF i <= count THEN dest[i] * k ELSE dest[i]]

\* 1.f, in the unit samples are counted in
One == 100

\* what 0.f * (1.f / 0.f) gives: not a number
NaN == -1000000

Abs(x) == IF x < 0 THEN 0 - x ELSE x

\* DspAbsMax comparing the samples themselves
DspAbsMax_NoAbs(buf, cur_peak, count) ==
  LET m[i \in 0..count] ==
        IF i = 0 THEN cur_peak
        ELSE IF buf[i] # NaN /\ buf[i] > m[i - 1]
             THEN buf[i] ELSE m[i - 1]
  IN m[count]

\* dsp_abs_max (&buf[0], &cur_peak, count): a sample that is not a
\* number is greater than nothing
DspAbsMax(buf, cur_peak, count) ==
  LET m[i \in 0..count] ==
        IF i = 0 THEN cur_peak
        ELSE IF buf[i] # NaN /\ Abs(buf[i]) > m[i - 1]
             THEN Abs(buf[i]) ELSE m[i - 1]
  IN m[count]

\* a * (1.f / b), rounded towards zero; 1.f / 0.f is infinite and zero
\* times it is not a number
MulReciprocal(a, b) ==
  IF a = NaN THEN NaN
  ELSE IF b = 0 THEN NaN
  ELSE IF a < 0 THEN 0 - (((0 - a) * One) \div b)
  ELSE (a * One) \div b

\* lines 440-451
NormalizePeak(frames, count) ==
  LET abs_peak == DspAbsMax(frames, 0, count)
  IN [i \in 1..Len(frames) |->
        IF i <= count THEN MulReciprocal(frames[i], abs_peak)
        ELSE frames[i]]

\* lines 466-478
NudgeLeft(frames, src, n, ch, d) ==
  LET excl == n - d
  IN DspFill(DspCopy(frames, 0, src, ch * d, ch * excl),
             ch * excl, 0, ch * d)

\* lines 480-492: the copy starts at frames[nudge_frames]
NudgeRight(frames, src, n, ch, d) ==
  LET excl == n - d
  IN DspFill(DspCopy(frames, d, src, 0, ch * excl), 0, 0, ch * d)

\* Reverse reading from the start of the clip
Reverse_FromClipStart(clip, start, n, ch) ==
  [k \in 1..(n * ch) |->
     LET i == (k - 1) \div ch
         j == (k - 1) % ch
     IN clip[((n - i) - 1) * ch + j + 1]]

\* lines 493-505: read from the clip itself
Reverse(clip, start, n, ch) ==
  [k \in 1..(n * ch) |->
     LET i == (k - 1) \div ch
         j == (k - 1) % ch
     IN clip[(start + ((n - i) - 1)) * ch + j + 1]]

\* lines 434-551: the switch on the function type
Transform(type, frames, src, clip, start, n, ch, d) ==
  CASE type = "INVERT" -> DspMulK2(frames, -1, n * ch)
    [] type = "NORMALIZE_PEAK" -> NormalizePeak(frames, n * ch)
    [] type = "NUDGE_LEFT" -> NudgeLeft(frames, src, n, ch, d)
    [] type = "NUDGE_RIGHT" -> NudgeRight(frames, src, n, ch, d)
    [] type = "REVERSE" -> Reverse(clip, start, n, ch)
    [] OTHER -> frames

\* audio_region_replace_frames (r, frames, start, num_frames, ...)
AudioRegionReplaceFrames(clip, frames, start, n, ch) ==
  DspCopy(clip, start * ch, frames, 0, n * ch)

\* AudioFunctionFail without the g_set_error_literal
AudioFunctionFail_NoError(err) ==
  /\ af_ret' = -1
  /\ af_error' = "none"
  /\ UNCHANGED <<clipVars, selVars, pool>>

\* the return without any effect: g_return_val_if_fail, or line 391
AudioFunctionFail(err) ==
  /\ af_ret' = -1
  /\ af_error' = err
  /\ UNCHANGED <<clipVars, selVars, pool>>

Min(a, b) == IF a < b THEN a ELSE b

\* what a read outside the frames buffer can find
GarbageValues == {0, -1}

\* frames[idx], idx counted from 0
FrameRead(fr, idx, garbage) ==
  IF idx < Len(fr) THEN fr[idx + 1] ELSE garbage

\* frames[idx] = v; a write outside the buffer does not reach it
FrameWrite(fr, idx, v) ==
  IF idx < Len(fr) THEN [fr EXCEPT ![idx + 1] = v] ELSE fr

\* lines 270 and 310, lilv_instance_run: the plugin is run on
\* `inputs' (one <<left, right>> pair per frame) after `hist'; it delays
\* its input by the latency it reports
PluginRun(hist, inputs, delay) ==
  LET all == hist \o inputs
  IN [j \in 1..Len(inputs) |->
        LET t == Len(hist) + j - delay
        IN IF t >= 1 THEN all[t] ELSE <<0, 0>>]

\* lines 261-267: the samples copied to the plugin's input buffers; with
\* one plugin channel r_in is l_in and the second store wins
PluginInputs(fr, i, step, ch, garbage) ==
  [j \in 1..step |->
     LET l == FrameRead(fr, (i + j - 1) * ch, garbage)
         r == FrameRead(fr, (i + j - 1) * ch + 1, garbage)
     IN IF pl_stereo THEN <<l, r>> ELSE <<r, r>>]

\* lines 271-287 and 311-327: the writes of one block, in order; `base'
\* is the index of the block's first output frame
WriteBlock(fr, out, base, ch) ==
  LET w[j \in 0..Len(out)] ==
        IF j = 0 THEN fr
        ELSE IF base + j - 1 < 0 THEN w[j - 1]
        ELSE FrameWrite(FrameWrite(w[j - 1], (base + j - 1) * ch,
                                   out[j][1]),
                        (base + j - 1) * ch + 1, out[j][2])
  IN w[Len(out)]

\* an index of the block's reads or writes is outside the buffer
BlockOutside(i, step, base, ch, reads) ==
  \E j \in 0..(step - 1) :
    \/ reads /\ (i + j) * ch + 1 >= ap_num * ch
    \/ base + j >= 0 /\ (base + j) * ch + 1 >= ap_num * ch

\* lines 254-295 for a plugin of constant latency: the buffer and the
\* plugin's input history after every block of the main loop
MainPass(fr, n, ch, lat, block, garbage) ==
  LET blocks == ((n + block) - 1) \div block
      st[b \in 0..blocks] ==
        IF b = 0 THEN [frames |-> fr, hist |-> <<>>]
        ELSE LET i == (b - 1) * block
                 step == Min(block, n - i)
                 inputs == PluginInputs(st[b - 1].frames, i, step, ch,
                                        garbage)
                 out == PluginRun(st[b - 1].hist, inputs, lat)
             IN [frames |-> WriteBlock(st[b - 1].frames, out, i - lat, ch),
                 hist |-> st[b - 1].hist \o inputs]
  IN st[blocks]

\* lines 298-330 after MainPass; only called with lat <= n
FlushPass(main, n, ch, lat, block) ==
  LET blocks == ((lat + block) - 1) \div block
      st[b \in 0..blocks] ==
        IF b = 0 THEN main
        ELSE LET i == (b - 1) * block
                 step == Min(block, lat - i)
                 inputs == [j \in 1..step |-> <<0, 0>>]
                 out == PluginRun(st[b - 1].hist, inputs, lat)
             IN [frames |-> WriteBlock(st[b - 1].frames, out,
                                       (i + n) - lat, ch),
                 hist |-> st[b - 1].hist \o inputs]
  IN st[blocks]

\* what can happen in lines 129-159 and 535
PluginSetups ==
  {"no_uri", "no_descriptor", "no_setting", "create_failed",
   "instantiate_failed", "activate_failed", "ok"}

\* the type with a plugin is the only one with a setup
SetupsOf(type) == IF type = "CUSTOM_PLUGIN" THEN PluginSetups ELSE {"none"}

\* lines 535-546 with apply_plugin, lines 129-337: the return value, the
\* error audio_function_apply hands to its caller and the frames
ApplyPluginCall(setup, fr, n, ch, garbage) ==
  CASE setup \in {"no_uri", "no_descriptor", "no_setting",
                  "activate_failed"} ->
         [ret |-> -1, error |-> "none", frames |-> fr]
    [] setup = "create_failed" ->
         [ret |-> -1, frames |-> fr,
          error |-> "Failed to apply plugin: Failed to create plugin"]
    [] setup = "instantiate_failed" ->
         [ret |-> -1, frames |-> fr,
          error |-> "Failed to apply plugin: Failed to instantiate plugin"]
    [] OTHER ->
         LET main == MainPass(fr, n, ch, lv2_latency, block_length, garbage)
         IN IF lv2_latency > n
            THEN [ret |-> -1, error |-> "none", frames |-> main.frames]
            ELSE [ret |-> 0, error |-> "none",
                  frames |-> FlushPass(main, n, ch, lv2_latency,
                                       block_length).frames]

\* lines 569-602: the new clip, the pool id, the region's frames
AudioFunctionFinish(type, frames, start, n, ch) ==
  /\ pool' = Append(pool, [frames |-> frames,
                           channels |-> ch,
                           writes |-> 1])
  /\ sel_pool_id' = Len(pool)
  /\ clip_frames' =
       IF type # "INVALID"
       THEN AudioRegionReplaceFrames(clip_frames, frames, start, n, ch)
       ELSE clip_frames
  /\ af_ret' = 0
  /\ af_error' = "none"
  /\ UNCHANGED <<channels, region_pos, nudge_frames, sel_start, sel_end>>

\* AudioFunctionApply returning at once for the no-op type
AudioFunctionApply_SkipsNoOp(type) ==
  LET start == sel_start - region_pos
      end == sel_end - region_pos
      n == end - start
      ch == channels
      d == nudge_frames
  IN \E setup \in SetupsOf(type) :
     /\ af_calls' = af_calls + 1
     /\ af_type' = type
     /\ af_setup' = IF sel_start < region_pos \/ sel_end > region_end
                       \/ ~(d > 0)
                    THEN "none" ELSE setup
     /\ IF sel_start < region_pos \/ sel_end > region_end
        THEN AudioFunctionFail("INVALID_POSITIONS")
        ELSE IF ~(d > 0)
        THEN AudioFunctionFail("none")
        ELSE IF type \in {"NUDGE_LEFT", "NUDGE_RIGHT"} /\ ~(n > d)
        THEN AudioFunctionFail("none")
        ELSE IF type = "INVALID"
        THEN /\ af_ret' = 0
             /\ af_error' = "none"
             /\ UNCHANGED <<clipVars, selVars, pool>>
        ELSE LET src == SubSeq(clip_frames, start * ch + 1, end * ch)
             IN IF type = "CUSTOM_PLUGIN"
                THEN \E garbage \in GarbageValues :
                       LET res == ApplyPluginCall(setup, src, n, ch, garbage)
                       IN IF res.ret # 0
                          THEN AudioFunctionFail(res.error)
                          ELSE AudioFunctionFinish(type, res.frames,
                                                   start, n, ch)
                ELSE AudioFunctionFinish(
                       type, Transform(type, src, src, clip_frames,
                                       start, n, ch, d),
                       start, n, ch)

\* lines 355-603
AudioFunctionApply(type) ==
  LET start == sel_start - region_pos
      end == sel_end - region_pos
      n == end - start
      ch == channels
      d == nudge_frames
  IN \E setup \in SetupsOf(type) :
     /\ af_calls' = af_calls + 1
     /\ af_type' = type
     /\ af_setup' = IF sel_start < region_pos \/ sel_end > region_end
                       \/ ~(d > 0)
                    THEN "none" ELSE setup
     /\ IF sel_start < region_pos \/ sel_end > region_end
        THEN AudioFunctionFail("INVALID_POSITIONS")
        ELSE IF ~(d > 0)
        THEN AudioFunctionFail("none")
        ELSE IF type \in {"NUDGE_LEFT", "NUDGE_RIGHT"} /\ ~(n > d)
        THEN AudioFunctionFail("none")
        ELSE LET src == SubSeq(clip_frames, start * ch + 1, end * ch)
             IN IF type = "CUSTOM_PLUGIN"
                THEN \E garbage \in GarbageValues :
                       LET res == ApplyPluginCall(setup, src, n, ch, garbage)
                       IN IF res.ret # 0
                          THEN AudioFunctionFail(res.error)
                          ELSE AudioFunctionFinish(type, res.frames,
                                                   start, n, ch)
                ELSE AudioFunctionFinish(
                       type, Transform(type, src, src, clip_frames,
                                       start, n, ch, d),
                       start, n, ch)

\* an editor function is applied to the selection
ApplyFunction ==
  /\ af_calls < MaxCalls
  /\ \E type \in FunctionTypes : AudioFunctionApply(type)
  /\ UNCHANGED <<cycleSide, rateVars, pluginVars, exportVars, sideVars>>

\* normalize-peak is applied to the selection
ApplyNormalize ==
  /\ af_calls < MaxCalls
  /\ AudioFunctionApply("NORMALIZE_PEAK")
  /\ UNCHANGED <<cycleSide, rateVars, pluginVars, exportVars, sideVars>>

\* a plugin is applied to the selection
ApplyCustomPlugin ==
  /\ af_calls < MaxCalls
  /\ AudioFunctionApply("CUSTOM_PLUGIN")
  /\ UNCHANGED <<cycleSide, rateVars, pluginVars, exportVars, sideVars>>

(* --------------- apply_plugin, audio_function.c lines 120-338 ---------- *)

\* the latency the plugin reports after a run
NextLatency == IF pl_constant THEN {lv2_latency} ELSE 0..MaxLatency

\* lines 254-258
ApplyPluginEnter ==
  /\ ap_pc = "enter"
  /\ ap_step' = Min(block_length, ap_num)
  /\ ap_i' = 0
  /\ pl_latency' = lv2_latency
  /\ ap_latency' = lv2_latency
  /\ ap_pc' = "main"
  /\ UNCHANGED <<ap_channels, ap_num, ap_src, ap_frames, ap_oob, ap_ret,
                 lv2_latency, pl_stereo, pl_constant, pl_hist>>

\* lines 259-295, one turn of the loop; when it is the last one, lines
\* 298-300 as well
ApplyPluginMain ==
  /\ ap_pc = "main"
  /\ \E garbage \in GarbageValues, reported \in NextLatency :
       LET ch == ap_channels
           inputs == PluginInputs(ap_frames, ap_i, ap_step, ch, garbage)
           out == PluginRun(pl_hist, inputs, lv2_latency)
           i2 == ap_i + ap_step
       IN /\ pl_hist' = pl_hist \o inputs
          /\ ap_frames' = WriteBlock(ap_frames, out, ap_i - ap_latency, ch)
          /\ ap_oob' = (ap_oob \/ BlockOutside(ap_i, ap_step,
                                                ap_i - ap_latency, ch, TRUE))
          /\ lv2_latency' = reported
          /\ pl_latency' = IF ap_i > ap_latency THEN reported
                            ELSE pl_latency
          /\ IF i2 < ap_num
             THEN /\ ap_i' = i2
                  /\ ap_step' = Min(ap_step, ap_num - i2)
                  /\ ap_pc' = "main"
             ELSE /\ ap_i' = 0
                  /\ ap_step' = Min(block_length, ap_latency)
                  /\ ap_pc' = IF 0 < ap_latency THEN "flush" ELSE "end"
  /\ UNCHANGED <<ap_channels, ap_num, ap_src, ap_latency, ap_ret,
                 pl_stereo, pl_constant>>

\* lines 301-330, one turn of the loop over the latency
ApplyPluginFlush ==
  /\ ap_pc = "flush"
  /\ \E reported \in NextLatency :
       LET ch == ap_channels
           inputs == [j \in 1..ap_step |-> <<0, 0>>]
           out == PluginRun(pl_hist, inputs, lv2_latency)
           base == (ap_i + ap_num) - ap_latency
           i2 == ap_i + ap_step
       IN /\ pl_hist' = pl_hist \o inputs
          /\ lv2_latency' = reported
          /\ IF base < 0
             THEN /\ ap_ret' = -1
                  /\ ap_pc' = "done"
                  /\ UNCHANGED <<ap_frames, ap_oob, ap_i, ap_step>>
             ELSE /\ ap_frames' = WriteBlock(ap_frames, out, base, ch)
                  /\ ap_oob' = (ap_oob \/ BlockOutside(ap_i, ap_step, base,
                                                        ch, FALSE))
                  /\ ap_i' = i2
                  /\ ap_step' = Min(ap_step, ap_latency - i2)
                  /\ ap_pc' = IF i2 < ap_latency THEN "flush" ELSE "end"
                  /\ UNCHANGED ap_ret
  /\ UNCHANGED <<ap_channels, ap_num, ap_src, ap_latency, pl_latency,
                 pl_stereo, pl_constant>>

\* lines 331-337
ApplyPluginEnd ==
  /\ ap_pc = "end"
  /\ pl_latency' = lv2_latency
  /\ ap_ret' = 0
  /\ ap_pc' = "done"
  /\ UNCHANGED <<ap_channels, ap_num, ap_src, ap_frames, ap_i, ap_step,
                 ap_latency, ap_oob, lv2_latency, pl_stereo, pl_constant,
                 pl_hist>>

ApplyPlugin ==
  /\ \/ ApplyPluginEnter
     \/ ApplyPluginMain
     \/ ApplyPluginFlush
     \/ ApplyPluginEnd
  /\ UNCHANGED <<cycleSide, rateVars, functionVars, exportVars, sideVars>>

(* --------------------------- specifications ---------------------------- *)

\* the state after init_audio_engine, lines 260-420, with the strips given
CycleInit(strips, loops) ==
  /\ run \in BOOLEAN
  /\ play_state = "STOPPED"
  /\ playhead = 0
  /\ loop \in loops
  /\ paused = 0
  /\ port_operation_lock = 1
  /\ block_length \in BlockSizes
  /\ engine_nframes = 0
  /\ buf_size_set = FALSE
  /\ ports = [i \in 1..InitPorts |-> i]
  /\ allocated = 1..InitPorts
  /\ removed = {}
  /\ port_id = [p \in PortNames |-> IF p <= InitPorts THEN p - 1 ELSE 0]
  /\ port_nframes = [p \in PortNames |->
                       IF p <= InitPorts THEN block_length ELSE 0]
  /\ port_buf = [p \in PortNames |-> "zero"]
  /\ plugin_buf = [p \in ProcIds |-> block_length]
  /\ strip \in strips
  /\ processed = [p \in ProcIds |-> FALSE]
  /\ midi_in = <<>>
  /\ jack_out = 0
  /\ rpc = "idle"
  /\ nframes = 0
  /\ wpc = "idle"
  /\ mpc = "idle"
  /\ steps = <<>>
  /\ cleared = NoClears
  /\ proc_count = NoProcHistory
  /\ proc_order = <<>>
  /\ fb_read = "none"
  /\ entry_state = "none"
  /\ entry_playhead = 0
  /\ boundary_state = "none"
  /\ quiet = TRUE
  /\ transitions = 0
  /\ posts = 0
  /\ wakeups = 0

\* no project loaded and no sample rate reported yet: the engine is
\* calloc'ed at line 264
RateIdle ==
  /\ project = FALSE
  /\ bpm = DefaultBpm
  /\ beats_per_bar = DefaultBeats
  /\ sample_rate = 0
  /\ frames_per_tick = 0

\* no clip in the pool, nothing selected, no function applied
FunctionIdle ==
  /\ channels = 1
  /\ clip_frames = <<>>
  /\ region_pos = 0
  /\ nudge_frames = 0
  /\ sel_start = 0
  /\ sel_end = 0
  /\ sel_pool_id = -1
  /\ pool = <<>>
  /\ af_calls = 0
  /\ af_type = "none"
  /\ af_ret = 0
  /\ af_error = "none"
  /\ af_setup = "none"

\* no plugin is being applied
PluginIdle ==
  /\ ap_pc = "none"
  /\ ap_channels = 1
  /\ ap_num = 0
  /\ ap_src = <<>>
  /\ ap_frames = <<>>
  /\ ap_i = 0
  /\ ap_step = 0
  /\ ap_latency = 0
  /\ pl_latency = 0
  /\ lv2_latency = 0
  /\ pl_stereo = TRUE
  /\ pl_constant = TRUE
  /\ pl_hist = <<>>
  /\ ap_oob = FALSE
  /\ ap_ret = 0

\* exporter_export has not been called
NoExport ==
  /\ ex_pc = "idle"
  /\ exporting = FALSE
  /\ ex_settings = [mode |-> "EXPORT_MODE_FULL", marked |-> {},
                    bounce_with_parents |-> FALSE,
                    bounce_step |-> "BOUNCE_STEP_POST_FADER",
                    time_range |-> "TIME_RANGE_LOOP"]
  /\ ex_clock = 0
  /\ ex_out = <<>>
  /\ ex_main = <<>>
  /\ ex_ret = 0
  /\ ex_found = [rolling |-> FALSE, playhead |-> 0]
  /\ ex_cancelled = FALSE
  /\ ex_progress = 0
  /\ ex_status = "none"
  /\ ex_file = "none"
  /\ ex_frames = <<>>
  /\ ex_ref = <<>>
  /\ ex_region = <<>>
  /\ poll_pc = "idle"

\* no export is running; the project is an instrument track with notes
ExportIdle ==
  /\ proj_routing = "ins_region"
  /\ ins_insert = FALSE
  /\ ins_gain = One
  /\ markers = [start |-> 0, end |-> MaxPlayhead]
  /\ NoExport

\* an empty lane as track_lane_new makes it, and regions not yet in it
LaneNew ==
  /\ lane_regions = <<0>>
  /\ num_regions = 0
  /\ region_id = [r \in 1..MaxRegions |-> [lane_pos |-> 0, idx |-> 0]]
  /\ ce_id = <<>>
  /\ lane_op = [op |-> "none", region |-> 0, done |-> FALSE]
  /\ lane_gap = FALSE
  /\ lane_fault = FALSE

LaneIdle == LaneNew /\ lane_active = TRUE

\* the application before its init thread is started
AppIdle ==
  /\ first_run = TRUE
  /\ open_filename = FALSE
  /\ init_finished = FALSE
  /\ init_pc = "none"
  /\ scan_pc = "none"
  /\ scanned = 0
  /\ gtk_pc = "startup"
  /\ idle_sources = 0
  /\ prompts = 0
  /\ app_view = "splash"

SideIdle == LaneIdle /\ AppIdle

OtherIdle ==
  RateIdle /\ FunctionIdle /\ PluginIdle /\ ExportIdle /\ SideIdle

InitWith(strips, loops) == CycleInit(strips, loops) /\ OtherIdle

\* the events of a cycle in which every assert holds
NoteOn == [type |-> NOTE_ON, size |-> 3]
PlainEvents == SeqsUpTo({NoteOn}, MaxEvents)

\* the transport and the threads that raise requests against it
Init == InitWith({[c \in Channels |-> Slots]}, BOOLEAN)

Next ==
  \/ ProcessCycle({<<>>})
  \/ RequestRoll
  \/ RequestPause
  \/ Waiter
  \/ SetRun

Spec == Init /\ [][Next]_vars

\* a client that starts playback and pauses it, between two cycles
ClientRoll ==
  /\ rpc = "idle"
  /\ play_state = "STOPPED"
  /\ RequestRoll

ClientPause ==
  /\ rpc = "idle"
  /\ play_state = "ROLLING"
  /\ RequestPause

\* the engine and a thread that creates and removes ports
InitEngine == InitWith({[c \in Channels |-> Slots]}, {FALSE})

NextEngine ==
  \/ ProcessCycle(PlainEvents)
  \/ Mutator
  \/ ClientRoll
  \/ ClientPause

SpecEngine == InitEngine /\ [][NextEngine]_vars

\* the engine, buffer-size changes and a thread that removes ports
NextRemove ==
  \/ ProcessCycle(PlainEvents)
  \/ BufferSizeCallback
  \/ MutLock \/ MutDelete \/ MutUnlock
  \/ ClientRoll
  \/ ClientPause

SpecRemove == InitEngine /\ [][NextRemove]_vars

\* the engine, buffer-size changes and a thread that creates ports
NextResize ==
  \/ ProcessCycle(PlainEvents)
  \/ BufferSizeCallback
  \/ MutLock \/ MutCreate \/ MutUnlock
  \/ ClientRoll
  \/ ClientPause

SpecResize == InitEngine /\ [][NextResize]_vars

\* the engine with every arrangement of plugins in the channel strips
InitMixer == InitWith([Channels -> SUBSET Slots], {FALSE})

NextMixer ==
  \/ ProcessCycle({<<>>})
  \/ ClientRoll
  \/ ClientPause

SpecMixer == InitMixer /\ [][NextMixer]_vars


(* ------------------------------ claims --------------------------------- *)

\* the JACK thread is between line 149 and line 234 of a cycle
RTHoldsLock == "lock" \in Range(steps) /\ "unlock" \notin Range(steps)

BoundaryPcs ==
  {"test_pause", "set_paused", "post_paused", "test_roll", "set_rolling"}

\* C1: a cycle applies the request it finds pending before it takes the
\* lock and before any port is cleared or any processor runs: the store of
\* PAUSED follows the test that found PAUSE_REQUESTED, the store of ROLLING
\* follows the test that found ROLL_REQUESTED, and a cycle that finds any
\* other state stores nothing, so that a cycle during which no request is
\* raised reaches the lock with roll_requested turned into rolling,
\* pause_requested into paused and any other state unchanged; the requests
\* themselves only record ROLL_REQUESTED / PAUSE_REQUESTED; ROLLING and
\* PAUSED are entered by no other step.
C1_BoundaryAppliesRequests ==
  /\ [](( rpc = "lock" /\ quiet )
          => play_state = CASE entry_state = "ROLL_REQUESTED" -> "ROLLING"
                            [] entry_state = "PAUSE_REQUESTED" -> "PAUSED"
                            [] OTHER -> entry_state)
  /\ [][ /\ (play_state' = "ROLLING" /\ play_state # "ROLLING")
              => rpc = "set_rolling"
         /\ (play_state' = "PAUSED" /\ play_state # "PAUSED")
              => rpc = "set_paused"
         /\ (rpc = "test_pause" /\ rpc' # rpc)
              => rpc' = IF play_state = "PAUSE_REQUESTED" THEN "set_paused"
                        ELSE "test_roll"
         /\ (rpc = "test_roll" /\ rpc' # rpc)
              => rpc' = IF play_state = "ROLL_REQUESTED" THEN "set_rolling"
                        ELSE "lock"
         /\ (rpc = "set_paused" /\ rpc' # rpc) => play_state' = "PAUSED"
         /\ (rpc = "set_rolling" /\ rpc' # rpc) => play_state' = "ROLLING"
         /\ (rpc' # rpc /\ rpc \notin {"set_paused", "set_rolling"})
              => play_state' = play_state
         /\ rpc \in BoundaryPcs
              => (steps = <<>> /\ cleared = NoClears /\ proc_order = <<>>)
         /\ (rpc' = rpc /\ play_state' # play_state)
              => /\ play_state' \in {"ROLL_REQUESTED", "PAUSE_REQUESTED"}
                 /\ playhead' = playhead
                 /\ paused' = paused
       ]_vars

\* a requested roll has been applied and the lock is not yet taken
C1_Witness ==
  /\ rpc = "lock"
  /\ quiet
  /\ entry_state = "ROLL_REQUESTED"
  /\ boundary_state = "ROLLING"
  /\ play_state = "ROLLING"
  /\ steps = <<>>

\* C2: a cycle of n frames entered with a roll requested, no loop region
\* active and no further request raised while it runs, ends with the
\* transport rolling and the playhead n frames after where it was.
C2_RollThenCycle ==
  (rpc = "return" /\ entry_state = "ROLL_REQUESTED" /\ quiet /\ ~loop)
    => (play_state = "ROLLING" /\ playhead = entry_playhead + nframes)

\* the first cycle after request_roll() from the stopped transport
C2_Witness ==
  /\ rpc = "return"
  /\ entry_state = "ROLL_REQUESTED"
  /\ quiet
  /\ ~loop
  /\ entry_playhead = 0
  /\ nframes = MaxBlock
  /\ playhead = MaxBlock
  /\ play_state = "ROLLING"

\* C3: the playhead moves only in the advance step of a cycle whose
\* boundary transition left the transport rolling; a cycle that applied
\* the pause, or found the transport stopped or paused, leaves it alone.
C3_AdvanceOnlyWhenRolling ==
  [][ /\ playhead' # playhead
           => (rpc = "advance" /\ boundary_state = "ROLLING")
      /\ (rpc = "advance" /\ boundary_state \in {"PAUSED", "STOPPED"})
           => playhead' = playhead
    ]_vars

\* the cycle that applied a pause ends with the playhead where it was
C3_Witness ==
  /\ rpc = "return"
  /\ entry_state = "PAUSE_REQUESTED"
  /\ boundary_state = "PAUSED"
  /\ playhead > 0
  /\ playhead = entry_playhead

\* C4: from the end of the boundary transition to the playhead advance
\* the play state is the one the boundary transition left.
C4_NoTornState ==
  rpc \in {"lock", "clear", "midi", "reset", "mix", "copy", "unlock",
           "advance"}
    => play_state = boundary_state

\* C5: the 'paused' semaphore is posted once for each store of PAUSED and
\* only after that store, and the thread that requested a pause and waited
\* on the semaphore resumes only while the transport is paused.
C5_WaiterResumesPaused ==
  /\ posts <= transitions
  /\ transitions <= posts + 1
  /\ wpc = "resumed" => play_state = "PAUSED"

\* C6: the steps of a cycle happen in the order lock, clear, MIDI, reset,
\* mix, copy, unlock, advance; from the lock to the unlock the semaphore
\* is down and no other thread is inside it; processors run only after
\* the clear, the MIDI read and the reset; frames are copied out only
\* after the mixer ran; the playhead is untouched until after the unlock.
C6_CycleOrder ==
  /\ IsPrefix(steps, CycleSteps)
  /\ RTHoldsLock => (port_operation_lock = 0 /\ mpc = "idle")
  /\ (\E p \in PortNames : cleared[p] > 0) => "lock" \in Range(steps)
  /\ proc_order # <<>> => {"clear", "midi", "reset"} \subseteq Range(steps)
  /\ jack_out # 0 => "mix" \in Range(steps)
  /\ "advance" \notin Range(steps) => playhead = entry_playhead
  /\ playhead # entry_playhead => "unlock" \in Range(steps)

\* a rolling cycle with MIDI input has run all its steps
C6_Witness ==
  /\ rpc = "return"
  /\ steps = CycleSteps
  /\ midi_in # <<>>
  /\ jack_out = nframes
  /\ playhead = entry_playhead + nframes
  /\ port_operation_lock = 1

C10_BufferLengths ==
  /\ rpc # "bs_realloc"
       => \A p \in Range(ports) : port_nframes[p] = block_length
  /\ rpc = "return" => \A p \in Range(ports) : port_nframes[p] = nframes

\* a cycle has run after ports were created and the block length changed
C10_Witness ==
  /\ rpc = "return"
  /\ buf_size_set
  /\ Len(ports) = MaxPorts
  /\ nframes = MaxBlock
  /\ \A p \in Range(ports) : port_nframes[p] = MaxBlock
  /\ playhead > 0

\* C11: the destination of a feedback send, processed before the source
\* in the cycle, reads what the source port produced in the cycle before:
\* once an earlier cycle has run the mixer, the feedback read of a cycle
\* finds the previous cycle's output.
C11_FeedbackReadsPrevious ==
  (rpc \in {"copy", "unlock", "advance", "return"} /\ entry_playhead > 0)
    => fb_read = "old"

\* the cycle under every MIDI input JACK can deliver
AllEvents == SeqsUpTo(MidiEvent, MaxEvents)
NextMidi == ProcessCycle(AllEvents) \/ ClientRoll \/ ClientPause
SpecMidi == InitEngine /\ [][NextMidi]_vars

\* C12: whatever MIDI events arrive, the cycle is not cut short: the
\* program is never stopped inside jack_process_cb, so every cycle that
\* read its MIDI input goes on to release the lock, advance the transport
\* and return.
C12_CycleCompletes == rpc # "aborted"

\* the cycle and a thread that blocks on the port-operation lock
NextStall ==
  \/ ProcessCycle(PlainEvents)
  \/ MutLock
  \/ MutWait
  \/ MutWake
  \/ MutCreate
  \/ MutUnlock
  \/ ClientRoll
  \/ ClientPause
SpecStall == InitEngine /\ [][NextStall]_vars

\* C13: a cycle that took the lock has released it when the callback
\* returns, and a thread blocked on the lock during a cycle gets the lock
\* before any later cycle does: no cycle takes the lock while that thread
\* is still blocked.
C13_WaiterBeforeLaterCycle ==
  /\ [](rpc \in {"return", "idle"} => ~RTHoldsLock)
  /\ [][(rpc = "lock" /\ rpc' = "clear") => mpc # "waiting"]_vars

InitRate ==
  /\ CycleInit({[c \in Channels |-> Slots]}, {FALSE})
  /\ project \in BOOLEAN
  /\ bpm \in IF project THEN Tempos ELSE {DefaultBpm}
  /\ beats_per_bar \in IF project THEN Meters ELSE {DefaultBeats}
  /\ sample_rate = 0
  /\ frames_per_tick = 0
  /\ FunctionIdle
  /\ PluginIdle
  /\ ExportIdle
  /\ SideIdle
NextRate ==
  \/ SampleRateCallback
  \/ ProcessCycle({<<>>})
  \/ ClientRoll
  \/ ClientPause
SpecRate == InitRate /\ [][NextRate]_vars

\* C15: once a sample rate R has been reported, frames_per_tick is
\* (R * 60 * beats_per_bar) / (bpm * TICKS_PER_BAR) for the current tempo
\* and meter, with or without a project.
C15_FramesPerTickFollowsRate ==
  sample_rate # 0
    => frames_per_tick =
         (sample_rate * 60 * beats_per_bar * 100) \div (bpm * TICKS_PER_BAR)

\* a clip of ClipLen frames with all samples different, a region over it
\* and a selection in or around the region
\* a clip whose samples are all different
RampClip == [k \in 1..(ClipLen * channels) |-> k]

InitFunction ==
  /\ CycleInit({[c \in Channels |-> Slots]}, {FALSE})
  /\ RateIdle
  /\ ExportIdle
  /\ SideIdle
  /\ channels \in 1..MaxChannels
  /\ clip_frames = RampClip
  /\ region_pos \in {1, 2}
  /\ nudge_frames \in 0..MaxNudge
  /\ sel_start \in (region_pos - 1)..region_end
  /\ sel_end \in sel_start..(region_end + 1)
  /\ sel_pool_id = -1
  /\ pool = <<>>
  /\ af_calls = 0
  /\ af_type = "none"
  /\ af_ret = 0
  /\ af_error = "none"
  /\ af_setup = "none"
  /\ PluginIdle
NextFunction == ApplyFunction
SpecFunction == InitFunction /\ [][NextFunction]_vars

\* the selection copied by a call, and the clip the call added
Selected(clip) ==
  SubSeq(clip, (sel_start - region_pos) * channels + 1,
         (sel_end - region_pos) * channels)
Applied == af_calls' = af_calls + 1
Succeeded == Applied /\ af_ret' = 0
NewClip == pool'[Len(pool')]

\* C16: a call with a selection that starts before the region or ends
\* after it returns -1 with the invalid-positions error, whatever the
\* function type, and leaves the pool, the selection's pool id and the
\* clip's frames as they were.
C16_InvalidSelectionRejected ==
  [][(Applied /\ (sel_start < region_pos \/ sel_end > region_end))
       => /\ af_ret' = -1
          /\ af_error' = "INVALID_POSITIONS"
          /\ pool' = pool
          /\ sel_pool_id' = sel_pool_id
          /\ clip_frames' = clip_frames
    ]_vars

\* an invert of a selection that ends after the region has been refused
C16_Witness ==
  /\ af_calls = 1
  /\ af_type = "INVERT"
  /\ sel_start >= region_pos
  /\ sel_end > region_end
  /\ af_ret = -1
  /\ af_error = "INVALID_POSITIONS"
  /\ pool = <<>>

\* C17: a call that returns 0 adds exactly one clip to the pool, written
\* once, and stores its pool id in the selection; the clip holds the
\* frames the selection has after the call; for the no-op type these are
\* the frames it had before, and the region's clip is not touched; no
\* call changes a frame outside the selection.
C17_SuccessAddsOneClip ==
  [][Succeeded
       => /\ Len(pool') = Len(pool) + 1
          /\ SubSeq(pool', 1, Len(pool)) = pool
          /\ NewClip.writes = 1
          /\ NewClip.channels = channels
          /\ sel_pool_id' = Len(pool') - 1
          /\ Len(clip_frames') = Len(clip_frames)
          /\ af_type' = "INVALID"
               => (clip_frames' = clip_frames
                   /\ NewClip.frames = Selected(clip_frames))
          /\ af_type' # "INVALID"
               => NewClip.frames = Selected(clip_frames')
          /\ \A k \in 1..Len(clip_frames) :
               (k <= (sel_start - region_pos) * channels
                \/ k > (sel_end - region_pos) * channels)
                 => clip_frames'[k] = clip_frames[k]
    ]_vars

\* the no-op type has added a second clip after a real function
C17_Witness ==
  /\ af_calls = 2
  /\ af_type = "INVALID"
  /\ af_ret = 0
  /\ Len(pool) = 2
  /\ sel_pool_id = 1
  /\ pool[2].frames = Selected(clip_frames)
  /\ pool[1].frames # [k \in 1..Len(pool[1].frames) |->
                         (sel_start - region_pos) * channels + k]

\* C20: a successful nudge of a selection of n frames by d < n frames
\* leaves, in every channel, frame i + d of the selection in frame i and
\* zeros in the last d frames (left), or frame i - d in frame i and zeros
\* in the first d frames (right).
C20_NudgeShiftsFrames ==
  [][(Succeeded /\ af_type' \in {"NUDGE_LEFT", "NUDGE_RIGHT"})
       => LET src == Selected(clip_frames)
              n == sel_end - sel_start
              d == nudge_frames
          IN \A i \in 0..(n - 1) : \A c \in 1..channels :
               NewClip.frames[i * channels + c] =
                 IF af_type' = "NUDGE_LEFT"
                 THEN IF i < n - d THEN src[(i + d) * channels + c] ELSE 0
                 ELSE IF i >= d THEN src[(i - d) * channels + c] ELSE 0
    ]_vars

\* the call is a nudge that gets past the checks of every function type
NudgeCalled ==
  /\ Applied
  /\ af_type' \in {"NUDGE_LEFT", "NUDGE_RIGHT"}
  /\ sel_start >= region_pos
  /\ sel_end <= region_end
  /\ nudge_frames > 0

\* C21: a nudge fails exactly when the selection has fewer frames than
\* the nudge distance (with as many frames it succeeds), and a nudge that
\* fails leaves the pool, the selection's pool id and the clip's frames
\* as they were.
C21_NudgeFailsOnlyWhenShorter ==
  [][NudgeCalled
       => /\ af_ret' = -1 <=> (sel_end - sel_start) < nudge_frames
          /\ af_ret' = -1
               => /\ pool' = pool
                  /\ sel_pool_id' = sel_pool_id
                  /\ clip_frames' = clip_frames
    ]_vars

\* the step is the second call, the first one was a successful `first'
SecondAfter(first, second) ==
  /\ af_calls = 1
  /\ af_type = first
  /\ af_ret = 0
  /\ Succeeded
  /\ af_type' = second

\* C22: nudge-left and then nudge-right by d on the same selection of
\* n > d frames leaves the frames d..n-1 of the selection as they were at
\* first, in every channel.
C22_NudgeRoundTrip ==
  [][SecondAfter("NUDGE_LEFT", "NUDGE_RIGHT")
       => \A i \in nudge_frames..((sel_end - sel_start) - 1) :
            \A c \in 1..channels :
              Selected(clip_frames')[i * channels + c] =
                Selected(RampClip)[i * channels + c]
    ]_vars

\* C25: invert makes every sample of the selection its negative and
\* leaves every other sample of the clip alone; a second invert gives
\* back the clip as it was at first.
C25_InvertNegates ==
  [][(Succeeded /\ af_type' = "INVERT")
       => /\ \A k \in 1..Len(clip_frames) :
               clip_frames'[k] =
                 IF /\ k > (sel_start - region_pos) * channels
                    /\ k <= (sel_end - region_pos) * channels
                 THEN 0 - clip_frames[k]
                 ELSE clip_frames[k]
          /\ NewClip.frames = Selected(clip_frames')
          /\ SecondAfter("INVERT", "INVERT") => clip_frames' = RampClip
    ]_vars

\* two inverts of a selection of two frames or more have been applied
C25_Witness ==
  /\ af_calls = 2
  /\ af_type = "INVERT"
  /\ af_ret = 0
  /\ Len(pool) = 2
  /\ sel_end - sel_start >= 2
  /\ \A k \in 1..Len(pool[1].frames) : pool[1].frames[k] < 0
  /\ pool[2].frames = Selected(RampClip)
  /\ clip_frames = RampClip

\* C26: after reverse, frame i of the selection holds in every channel
\* what frame n-1-i of the selection held in that channel; the result is
\* made of frames of the selection only.
C26_ReversePerChannel ==
  [][(Succeeded /\ af_type' = "REVERSE")
       => LET src == Selected(clip_frames)
              n == sel_end - sel_start
          IN /\ Len(NewClip.frames) = n * channels
             /\ \A i \in 0..(n - 1) : \A c \in 1..channels :
                  NewClip.frames[i * channels + c] =
                    src[((n - 1) - i) * channels + c]
             /\ Selected(clip_frames') = NewClip.frames
    ]_vars

\* a selection of two frames or more of two channels, not at the start
\* of the clip, has been reversed
C26_Witness ==
  /\ af_calls = 1
  /\ af_type = "REVERSE"
  /\ af_ret = 0
  /\ channels >= 2
  /\ sel_start > region_pos
  /\ sel_end - sel_start >= 2
  /\ pool[1].frames[1] = Selected(RampClip)[Len(pool[1].frames) - channels + 1]
  /\ pool[1].frames # Selected(RampClip)

\* a plugin about to be applied to ap_num frames with all samples different
InitPlugin ==
  /\ CycleInit({[c \in Channels |-> Slots]}, {FALSE})
  /\ RateIdle
  /\ ExportIdle
  /\ SideIdle
  /\ FunctionIdle
  /\ ap_pc = "enter"
  /\ ap_channels \in 1..MaxChannels
  /\ ap_num \in 1..MaxFrames
  /\ ap_src = [k \in 1..(ap_num * ap_channels) |-> k]
  /\ ap_frames = ap_src
  /\ ap_i = 0
  /\ ap_step = 0
  /\ ap_latency = 0
  /\ pl_latency = 0
  /\ lv2_latency \in 0..MaxLatency
  /\ pl_stereo \in BOOLEAN
  /\ pl_constant \in BOOLEAN
  /\ pl_hist = <<>>
  /\ ap_oob = FALSE
  /\ ap_ret = 0
NextPlugin == ApplyPlugin
SpecPlugin == InitPlugin /\ [][NextPlugin]_vars

\* C18: a plugin that delays its input by a constant latency L <= N:
\* when apply_plugin has returned 0 every frame of the buffer is the frame
\* it was given.
C18_DelayCompensated ==
  (ap_pc = "done" /\ ap_ret = 0 /\ pl_constant /\ ap_latency <= ap_num)
    => ap_frames = ap_src

\* C19: after every processed block the plugin's latency has been read
\* again, and the value read is the one the following writes subtract and
\* the flush pass runs over.
C19_LatencyReRead ==
  ((ap_pc = "main" /\ ap_i > 0) \/ ap_pc = "flush")
    => (pl_latency = lv2_latency /\ ap_latency = lv2_latency)

\* shapes of the clip's content
Waves == {"ramp", "falling", "negative", "impulse", "silent"}

Wave(w, k, len) ==
  CASE w = "ramp" -> k
    [] w = "falling" -> (len + 1) - k
    [] w = "negative" -> 0 - k
    [] w = "impulse" -> IF k = 1 THEN -3 ELSE 0
    [] OTHER -> 0

\* a clip of one of the shapes and a selection inside the region
InitNormalize ==
  /\ CycleInit({[c \in Channels |-> Slots]}, {FALSE})
  /\ RateIdle
  /\ ExportIdle
  /\ SideIdle
  /\ channels \in 1..MaxChannels
  /\ \E w \in Waves :
       clip_frames = [k \in 1..(ClipLen * channels) |->
                        Wave(w, k, ClipLen * channels)]
  /\ region_pos \in {1, 2}
  /\ nudge_frames = 1
  /\ sel_start \in region_pos..region_end
  /\ sel_end \in sel_start..region_end
  /\ sel_pool_id = -1
  /\ pool = <<>>
  /\ af_calls = 0
  /\ af_type = "none"
  /\ af_ret = 0
  /\ af_error = "none"
  /\ af_setup = "none"
  /\ PluginIdle
NextNormalize == ApplyNormalize
SpecNormalize == InitNormalize /\ [][NextNormalize]_vars

\* m is the largest absolute value of the samples of buf
IsPeak(m, buf) ==
  /\ \E k \in 1..Len(buf) : Abs(buf[k]) = m
  /\ \A k \in 1..Len(buf) : Abs(buf[k]) <= m

Silent(buf) == \A k \in 1..Len(buf) : buf[k] = 0

Numbers(buf) == \A k \in 1..Len(buf) : buf[k] # NaN

\* C23: normalize-peak of a selection with a non-zero sample gives every
\* sample times 1/peak (to rounding), peak being the largest absolute
\* value over all channels of the selection, and the largest absolute
\* value of the result is 1.0.
C23_NormalizePeakScales ==
  [][(Succeeded /\ af_type' = "NORMALIZE_PEAK"
        /\ Numbers(Selected(clip_frames))
        /\ ~Silent(Selected(clip_frames)))
       => LET src == Selected(clip_frames)
              out == NewClip.frames
          IN /\ Len(out) = Len(src)
             /\ Numbers(out)
             /\ IsPeak(One, out)
             /\ \A m \in 1..One :
                  IsPeak(m, src)
                    => \A k \in 1..Len(src) :
                         /\ Abs(out[k] * m - src[k] * One) < m
                         /\ (src[k] < 0) = (out[k] < 0)
             /\ Selected(clip_frames') = out
    ]_vars

\* a selection of negative samples of two channels has been normalized
C23_Witness ==
  /\ af_calls = 1
  /\ af_type = "NORMALIZE_PEAK"
  /\ af_ret = 0
  /\ channels >= 2
  /\ sel_end - sel_start >= 2
  /\ pool[1].frames[Len(pool[1].frames)] = 0 - One
  /\ pool[1].frames[1] < 0
  /\ pool[1].frames[1] > 0 - One

\* C24: normalize-peak of a selection of zeros divides by nothing and
\* leaves every sample of the result zero.
C24_SilentStaysSilent ==
  [][(Succeeded /\ af_type' = "NORMALIZE_PEAK"
        /\ Silent(Selected(clip_frames)))
       => /\ Silent(NewClip.frames)
          /\ Silent(Selected(clip_frames'))
    ]_vars

\* a delay plugin of some constant latency, with one or two audio
\* channels, and a selection inside the region
InitCustom ==
  /\ CycleInit({[c \in Channels |-> Slots]}, {FALSE})
  /\ RateIdle
  /\ ExportIdle
  /\ SideIdle
  /\ channels \in 1..MaxChannels
  /\ clip_frames = RampClip
  /\ region_pos \in {1, 2}
  /\ nudge_frames = 1
  /\ sel_start \in region_pos..region_end
  /\ sel_end \in sel_start..region_end
  /\ sel_pool_id = -1
  /\ pool = <<>>
  /\ af_calls = 0
  /\ af_type = "none"
  /\ af_ret = 0
  /\ af_error = "none"
  /\ af_setup = "none"
  /\ ap_pc = "none"
  /\ ap_channels = 1
  /\ ap_num = 0
  /\ ap_src = <<>>
  /\ ap_frames = <<>>
  /\ ap_i = 0
  /\ ap_step = 0
  /\ ap_latency = 0
  /\ pl_latency = 0
  /\ lv2_latency \in 0..MaxLatency
  /\ pl_stereo \in BOOLEAN
  /\ pl_constant = TRUE
  /\ pl_hist = <<>>
  /\ ap_oob = FALSE
  /\ ap_ret = 0
NextCustom == ApplyCustomPlugin
SpecCustom == InitCustom /\ [][NextCustom]_vars

\* C27: a call whose plugin could not be created, instantiated or
\* activated returns an error with a message and has left the pool,
\* the selection's pool id and the clip's frames as they were.
C27_PluginFailureReported ==
  [][(Applied /\ af_setup' \in {"create_failed", "instantiate_failed",
                                 "activate_failed"})
       => /\ af_ret' # 0
          /\ af_error' # "none"
          /\ pool' = pool
          /\ sel_pool_id' = sel_pool_id
          /\ clip_frames' = clip_frames
    ]_vars

(* ------ exporter (exporter.c, not in src) and tests/audio/exporter.c ---- *)

\* the tracks of the test projects next to the master track: an
\* instrument track and a MIDI track routed to it
BounceTracks == {"ins", "midi"}

BounceSteps ==
  {"BOUNCE_STEP_BEFORE_INSERTS", "BOUNCE_STEP_PRE_FADER",
   "BOUNCE_STEP_POST_FADER"}

\* fader amps of the instrument track: 0.5f and unity
TrackGains == {One \div 2, One}

\* the tracks a track is routed through before the master
Parents(t) ==
  IF t = "midi" /\ proj_routing = "midi_to_ins" THEN {"ins"} ELSE {}

\* MarkForBounce marking the parents whatever the flag says
MarkForBounce_AlwaysParents(sel, with_parents) ==
  sel \cup UNION {Parents(t) : t \in sel}

\* tracklist_selections_mark_for_bounce (sel, with_parents,
\* F_NO_MARK_MASTER): the tracks marked
MarkForBounce(sel, with_parents) ==
  IF with_parents THEN sel \cup UNION {Parents(t) : t \in sel} ELSE sel

\* the two settings test_export_wav exports with, and the marks it sets
WavRequests ==
  {[mode |-> "EXPORT_MODE_FULL", marked |-> {},
    bounce_with_parents |-> FALSE,
    bounce_step |-> "BOUNCE_STEP_POST_FADER",
    time_range |-> "TIME_RANGE_LOOP"],
   [mode |-> "EXPORT_MODE_TRACKS", marked |-> BounceTracks,
    bounce_with_parents |-> TRUE,
    bounce_step |-> "BOUNCE_STEP_POST_FADER",
    time_range |-> "TIME_RANGE_LOOP"]}

\* the settings the tests export with over the loop range, and the marks
\* they set before
ExportRequests ==
  WavRequests
  \cup
  {[mode |-> "EXPORT_MODE_TRACKS", marked |-> MarkForBounce({t}, w),
    bounce_with_parents |-> w, bounce_step |-> b,
    time_range |-> "TIME_RANGE_LOOP"] :
     t \in BounceTracks, w \in BOOLEAN, b \in BounceSteps}

\* the settings of the bounce of the instrument track over the song range
SongRequests ==
  {[mode |-> "EXPORT_MODE_TRACKS", marked |-> MarkForBounce({"ins"}, w),
    bounce_with_parents |-> w, bounce_step |-> b,
    time_range |-> "TIME_RANGE_SONG"] :
     w \in BOOLEAN, b \in BounceSteps}

\* the time range of an export: the loop range, or from the start marker
\* to the end marker
RangeOf(set) ==
  IF set.time_range = "TIME_RANGE_SONG" THEN markers
  ELSE [start |-> LoopStart, end |-> LoopEnd]

\* processed frames / total frames
Progress(done, total) == (done * One) \div total

\* a track takes part in the export
Included(t, set) ==
  set.mode = "EXPORT_MODE_FULL" \/ t \in set.marked

\* the notes at frame pos
Note(pos) == pos + 1

\* the insert on the instrument track
Insert(x) == 3 * x

\* the MIDI track's events reaching the instrument at frame pos
MidiOut(pos, set) ==
  IF proj_routing = "midi_to_ins" /\ Included("midi", set)
  THEN Note(pos) ELSE 0

\* the instrument track's signal before its inserts
BeforeInserts(pos, set) ==
  IF ~Included("ins", set) THEN 0
  ELSE IF proj_routing = "ins_region" THEN Note(pos)
  ELSE MidiOut(pos, set)

PreFader(pos, set) ==
  IF ins_insert THEN Insert(BeforeInserts(pos, set))
  ELSE BeforeInserts(pos, set)

PostFader(pos, set) == (PreFader(pos, set) * ins_gain) \div One

\* Tap taking the final output whatever the step
Tap_PostFaderOnly(t, step, pos, set) ==
  IF t = "ins" THEN PostFader(pos, set) ELSE 0

\* what the tap of a marked track captures; a MIDI track has no audio
Tap(t, step, pos, set) ==
  IF t # "ins" THEN 0
  ELSE CASE step = "BOUNCE_STEP_BEFORE_INSERTS" -> BeforeInserts(pos, set)
         [] step = "BOUNCE_STEP_PRE_FADER" -> PreFader(pos, set)
         [] OTHER -> PostFader(pos, set)

\* the sample the export takes at frame pos: the master bus, or the taps
\* of the marked tracks when they are bounced without their parents
Rendered(pos, set) ==
  IF set.mode = "EXPORT_MODE_TRACKS" /\ ~set.bounce_with_parents
  THEN (IF "ins" \in set.marked
        THEN Tap("ins", set.bounce_step, pos, set) ELSE 0)
       + (IF "midi" \in set.marked
          THEN Tap("midi", set.bounce_step, pos, set) ELSE 0)
  ELSE PostFader(pos, set)

exportRest == <<cycleRest, rateVars, functionVars, pluginVars, projectVars,
                sideVars>>

\* the thread of the test is between two exports
BetweenExports ==
  /\ ex_pc \in {"idle", "done"}
  /\ poll_pc \in {"idle", "joined"}

\* tests/audio/exporter.c line 645: the playhead is moved between exports
ExportSeek ==
  /\ BetweenExports
  /\ \E pos \in 0..MaxPlayhead :
       /\ pos # playhead
       /\ playhead' = pos
  /\ UNCHANGED <<run, play_state, loop, paused, exportRest, ex_pc, exporting,
                 ex_settings, ex_clock, ex_out, ex_main, ex_ret, ex_found,
                 sessionVars>>

\* ExportStartWith leaving the clock where the last export stopped
ExportStartWith_KeepsClock(requests, polled) ==
  /\ BetweenExports
  /\ playhead <= MaxPlayhead
  /\ \E set \in requests : ex_settings' = set
  /\ exporting' = TRUE
  /\ ex_out' = <<>>
  /\ ex_main' = <<>>
  /\ ex_found' = [rolling |-> play_state = "ROLLING", playhead |-> playhead]
  /\ ex_cancelled' = FALSE
  /\ ex_progress' = 0
  /\ ex_status' = "none"
  /\ ex_file' = "none"
  /\ ex_frames' = <<>>
  /\ ex_region' = <<>>
  /\ poll_pc' = IF polled THEN "polling" ELSE poll_pc
  /\ ex_pc' = "running"
  /\ UNCHANGED <<transportVars, exportRest, ex_ret, ex_ref, ex_clock>>

\* the settings are filled in, with the cancellation flag clear, and the
\* export starts at the start of its range: called directly, or on a
\* thread of its own while the caller polls
ExportStartWith(requests, polled) ==
  /\ BetweenExports
  /\ playhead <= MaxPlayhead
  /\ \E set \in requests :
       /\ ex_settings' = set
       /\ ex_clock' = RangeOf(set).start
  /\ exporting' = TRUE
  /\ ex_out' = <<>>
  /\ ex_main' = <<>>
  /\ ex_found' = [rolling |-> play_state = "ROLLING", playhead |-> playhead]
  /\ ex_cancelled' = FALSE
  /\ ex_progress' = 0
  /\ ex_status' = "none"
  /\ ex_file' = "none"
  /\ ex_frames' = <<>>
  /\ ex_region' = <<>>
  /\ poll_pc' = IF polled THEN "polling" ELSE poll_pc
  /\ ex_pc' = "running"
  /\ UNCHANGED <<transportVars, exportRest, ex_ret, ex_ref>>

\* exporter_export is called with the loop range
ExportStart == ExportStartWith(ExportRequests, FALSE)

\* exporter_export is called as test_export_wav calls it
ExportWav == ExportStartWith(WavRequests, FALSE)

\* exporter_generic_export_thread is started with the loop range
ThreadStart == ExportStartWith(ExportRequests, TRUE)

\* exporter_generic_export_thread is started with the song range
BounceStart == ExportStartWith(SongRequests, TRUE)

\* n frames are rendered at the offline clock and written out, and the
\* progress is updated; a transport that is not rolling does not advance
RenderBlock(n, head) ==
  LET range == RangeOf(ex_settings)
  IN /\ ex_out' = ex_out \o [j \in 1..n |->
                               Rendered((ex_clock + j) - 1, ex_settings)]
     /\ ex_main' = ex_main \o [j \in 1..n |->
                                 PostFader((ex_clock + j) - 1, ex_settings)]
     /\ ex_frames' = ex_frames \o [j \in 1..n |-> (ex_clock + j) - 1]
     /\ ex_clock' = ex_clock + n
     /\ ex_progress' = Progress((ex_clock + n) - range.start,
                                range.end - range.start)
     /\ ex_file' = "partial"
     /\ playhead' = head
     /\ ex_pc' = "check"
     /\ UNCHANGED <<run, play_state, loop, paused, exportRest, exporting,
                    ex_settings, ex_ret, ex_found, ex_cancelled, ex_status,
                    ex_ref, ex_region, poll_pc>>

\* the frames left in the range
Remaining == RangeOf(ex_settings).end - ex_clock

\* ExportBlock using the transport's playhead as its clock
ExportBlock_MovesPlayhead ==
  /\ ex_pc = "running"
  /\ Remaining > 0
  /\ LET n == Min(block_length, Remaining)
     IN RenderBlock(n, ex_clock + n)

\* ExportBlock rendering a whole block at the end of the range
ExportBlock_WholeBlocks ==
  /\ ex_pc = "running"
  /\ Remaining > 0
  /\ RenderBlock(block_length,
                 TransportUpdatePlayhead(playhead, play_state, block_length))

\* one block of the export: the cycle's logic against the offline clock
ExportBlock ==
  /\ ex_pc = "running"
  /\ Remaining > 0
  /\ LET n == Min(block_length, Remaining)
     IN RenderBlock(n, TransportUpdatePlayhead(playhead, play_state, n))

\* ExportCheck going on whatever the flag says
ExportCheck_IgnoresFlag ==
  /\ ex_pc = "check"
  /\ ex_pc' = "running"
  /\ UNCHANGED <<transportVars, exportRest, exporting, ex_settings, ex_clock,
                 ex_out, ex_main, ex_ret, ex_found, sessionVars>>

\* the cancellation flag is read after the block: a cancelled export
\* discards what it rendered and reports that it was cancelled
ExportCheck ==
  /\ ex_pc = "check"
  /\ IF ex_cancelled
     THEN /\ exporting' = FALSE
          /\ ex_out' = <<>>
          /\ ex_main' = <<>>
          /\ ex_file' = "none"
          /\ ex_status' = "cancelled"
          /\ ex_ret' = -1
          /\ ex_pc' = "done"
          /\ UNCHANGED <<transportVars, exportRest, ex_settings, ex_clock,
                         ex_found, ex_cancelled, ex_progress, ex_frames,
                         ex_ref, ex_region, poll_pc>>
     ELSE /\ ex_pc' = "running"
          /\ UNCHANGED <<transportVars, exportRest, exporting, ex_settings,
                         ex_clock, ex_out, ex_main, ex_ret, ex_found,
                         sessionVars>>

\* the range is covered: exporter_export returns 0
ExportFinish ==
  /\ ex_pc = "running"
  /\ Remaining <= 0
  /\ exporting' = FALSE
  /\ ex_ret' = 0
  /\ ex_status' = "success"
  /\ ex_file' = "complete"
  /\ ex_pc' = "done"
  /\ UNCHANGED <<transportVars, exportRest, ex_settings, ex_clock, ex_out,
                 ex_main, ex_found, ex_cancelled, ex_progress, ex_frames,
                 ex_ref, ex_region, poll_pc>>

\* another thread sets the cancellation flag of the running export
ExportCancel ==
  /\ ex_pc \in {"running", "check"}
  /\ ~ex_cancelled
  /\ ex_cancelled' = TRUE
  /\ UNCHANGED <<transportVars, exportRest, ex_pc, exporting, ex_settings,
                 ex_clock, ex_out, ex_main, ex_ret, ex_found, ex_progress,
                 ex_status, ex_file, ex_frames, ex_ref, ex_region, poll_pc>>

\* PollProgress waiting for more than 1.0
PollProgress_Above ==
  /\ poll_pc = "polling"
  /\ ex_progress > One
  /\ poll_pc' = "joining"
  /\ UNCHANGED <<transportVars, exportRest, ex_pc, exporting, ex_settings,
                 ex_clock, ex_out, ex_main, ex_ret, ex_found, ex_cancelled,
                 ex_progress, ex_status, ex_file, ex_frames, ex_ref,
                 ex_region>>

\* print_progress_and_sleep returns: the progress it read is not below 1.0
PollProgress ==
  /\ poll_pc = "polling"
  /\ ~(ex_progress < One)
  /\ poll_pc' = "joining"
  /\ UNCHANGED <<transportVars, exportRest, ex_pc, exporting, ex_settings,
                 ex_clock, ex_out, ex_main, ex_ret, ex_found, ex_cancelled,
                 ex_progress, ex_status, ex_file, ex_frames, ex_ref,
                 ex_region>>

\* g_thread_join returns: the export thread has finished
ThreadJoin ==
  /\ poll_pc = "joining"
  /\ ex_pc = "done"
  /\ poll_pc' = "joined"
  /\ UNCHANGED <<transportVars, exportRest, ex_pc, exporting, ex_settings,
                 ex_clock, ex_out, ex_main, ex_ret, ex_found, ex_cancelled,
                 ex_progress, ex_status, ex_file, ex_frames, ex_ref,
                 ex_region>>

\* the region holding the bounced material, put at pos
BouncedRegion(pos) == <<pos, pos + Len(ex_out)>>

\* CreateAudioTrackAfterBounce putting the region at the playhead
CreateAudioTrackAfterBounce_AtPlayhead ==
  /\ poll_pc = "joined"
  /\ ex_pc = "done"
  /\ ex_status = "success"
  /\ ex_region = <<>>
  /\ ex_region' = BouncedRegion(playhead)
  /\ UNCHANGED <<transportVars, exportRest, ex_pc, exporting, ex_settings,
                 ex_clock, ex_out, ex_main, ex_ret, ex_found, ex_cancelled,
                 ex_progress, ex_status, ex_file, ex_frames, ex_ref, poll_pc>>

\* exporter_create_audio_track_after_bounce (&settings, the start
\* marker's position)
CreateAudioTrackAfterBounce ==
  /\ poll_pc = "joined"
  /\ ex_pc = "done"
  /\ ex_status = "success"
  /\ ex_region = <<>>
  /\ ex_region' = BouncedRegion(markers.start)
  /\ UNCHANGED <<transportVars, exportRest, ex_pc, exporting, ex_settings,
                 ex_clock, ex_out, ex_main, ex_ret, ex_found, ex_cancelled,
                 ex_progress, ex_status, ex_file, ex_frames, ex_ref, poll_pc>>

\* the export that has just returned is kept to compare later ones with
ExportKeep ==
  /\ ex_pc = "done"
  /\ ex_status = "success"
  /\ ex_ref = <<>>
  /\ ex_ref' = <<ex_settings, ex_out>>
  /\ UNCHANGED <<transportVars, exportRest, ex_pc, exporting, ex_settings,
                 ex_clock, ex_out, ex_main, ex_ret, ex_found, ex_cancelled,
                 ex_progress, ex_status, ex_file, ex_frames, ex_region,
                 poll_pc>>

\* one of the test projects, nothing exported yet
TestProject ==
  /\ CycleInit({[c \in Channels |-> Slots]}, {FALSE})
  /\ RateIdle
  /\ FunctionIdle
  /\ PluginIdle
  /\ SideIdle
  /\ proj_routing \in {"ins_region", "midi_to_ins"}
  /\ ins_insert \in BOOLEAN
  /\ ins_gain \in TrackGains
  /\ NoExport

InitExport ==
  /\ TestProject
  /\ markers = [start |-> 0, end |-> MaxPlayhead]
NextExport ==
  ExportSeek \/ ExportStart \/ ExportBlock \/ ExportCheck \/ ExportFinish
SpecExport == InitExport /\ [][NextExport]_vars

\* the step is the return of exporter_export
ExportReturns == ex_pc = "running" /\ ex_pc' = "done"

\* C28: an export that found the transport not rolling and the playhead
\* at p returns 0 with the transport not rolling, the playhead at p and
\* AUDIO_ENGINE->exporting false; so does every later export, in full
\* mode and in tracks mode.
C28_ExportLeavesTransport ==
  [][(ExportReturns /\ ~ex_found.rolling)
       => /\ ex_ret' = 0
          /\ play_state' # "ROLLING"
          /\ playhead' = ex_found.playhead
          /\ ~exporting'
    ]_vars

\* a tracks-mode export of the whole loop range has returned with the
\* playhead where it was, away from the start
C28_Witness ==
  /\ ex_pc = "done"
  /\ ex_ret = 0
  /\ ex_settings.mode = "EXPORT_MODE_TRACKS"
  /\ Len(ex_out) = LoopEnd - LoopStart
  /\ ex_found.playhead = MaxPlayhead
  /\ playhead = MaxPlayhead
  /\ ~exporting

\* the MIDI track routed to the instrument track was the one selected
MidiTrackBounced ==
  /\ ex_pc = "done"
  /\ proj_routing = "midi_to_ins"
  /\ "midi" \in ex_settings.marked

InstrumentBounced ==
  /\ ex_pc = "done"
  /\ proj_routing = "ins_region"
  /\ ex_settings.mode = "EXPORT_MODE_TRACKS"
  /\ ~ex_settings.bounce_with_parents
  /\ ex_settings.marked = {"ins"}

LiveCycle == BetweenExports /\ ProcessCycle({<<>>})

\* playback is started or paused between two exports
LiveRoll == BetweenExports /\ ClientRoll
LivePause == BetweenExports /\ ClientPause

\* exports repeated on one project, with the engine live in between
NextRepeat ==
  \/ ExportWav \/ ExportBlock \/ ExportCheck \/ ExportFinish
  \/ ExportKeep
  \/ LiveCycle \/ LiveRoll \/ LivePause
SpecRepeat == InitExport /\ [][NextRepeat]_vars

\* the export that has returned had the settings of the one kept
SameSettingsAgain ==
  /\ ex_pc = "done"
  /\ ex_status = "success"
  /\ ex_ref # <<>>
  /\ ex_ref[1] = ex_settings

NextCancel ==
  \/ ThreadStart \/ ExportBlock \/ ExportCheck \/ ExportFinish
  \/ ExportCancel
  \/ PollProgress \/ ThreadJoin
SpecCancel == InitExport /\ [][NextCancel]_vars

\* the same with the export thread and the polling thread kept running
SpecCancelFair ==
  /\ SpecCancel
  /\ WF_vars(ExportBlock)
  /\ WF_vars(ExportCheck)
  /\ WF_vars(ExportFinish)
  /\ WF_vars(PollProgress)
  /\ WF_vars(ThreadJoin)

\* the export thread is running
ExportRunning == ex_pc \in {"running", "check"}

\* the frames in the range of the running export
TotalFrames == RangeOf(ex_settings).end - RangeOf(ex_settings).start

\* the progress is processed frames / total frames, within [0, 1]
ProgressIsRatio ==
  ExportRunning
    => /\ ex_progress = Progress(Len(ex_frames), TotalFrames)
       /\ 0 <= ex_progress
       /\ ex_progress <= One

\* the progress of a running export does not decrease
ProgressGrows == ExportRunning => ex_progress' >= ex_progress

\* the export thread finishes with the progress at 1.0
FinishedAtOne == (ExportRunning /\ ex_pc' = "done") => ex_progress' >= One

C33_CancelStopsAfterBlock ==
  [][/\ (ex_cancelled /\ ex_pc' # "running" /\ ex_frames' # ex_frames)
        => (ex_pc = "running" /\ ex_pc' = "check")
     /\ (ex_cancelled /\ ex_pc = "check" /\ ex_pc' # ex_pc)
        => /\ ex_pc' = "done"
           /\ ex_status' = "cancelled"
           /\ ex_ret' # 0
           /\ ex_file' = "none"
           /\ ex_out' = <<>>
           /\ ex_frames' = ex_frames
           /\ ~exporting'
    ]_vars

\* an export cancelled during its first block, with more of the range
\* to go, has stopped after that block
C33_Witness ==
  /\ ex_pc = "done"
  /\ ex_cancelled
  /\ ex_status = "cancelled"
  /\ ex_file = "none"
  /\ Len(ex_frames) = block_length
  /\ Len(ex_frames) < TotalFrames
  /\ ~exporting

\* the start and end markers, moved as the test moves them
MarkerChoices ==
  {m \in [start : 0..MaxPlayhead, end : 0..MaxPlayhead] : m.start < m.end}

\* a bounce of the instrument track with its region, its insert and its
\* fader at 0.5 over the song range, and the audio track made from it
InitBounce ==
  /\ TestProject
  /\ proj_routing = "ins_region"
  /\ ins_insert
  /\ ins_gain = One \div 2
  /\ markers \in MarkerChoices
NextBounce ==
  \/ ExportSeek \/ BounceStart \/ ExportBlock \/ ExportCheck \/ ExportFinish
  \/ PollProgress \/ ThreadJoin
  \/ CreateAudioTrackAfterBounce
SpecBounce == InitBounce /\ [][NextBounce]_vars

\* the first n positions of the range of the export
RangeFrames(n) == [k \in 1..n |-> (RangeOf(ex_settings).start + k) - 1]

\* the frames rendered are the frames of the range from its start up to
\* the clock, all of them once the export has returned, and the region
\* made from the bounce lies from the start marker to the end marker
CoversRange ==
  /\ (ExportRunning \/ ex_pc = "done")
       => /\ ex_frames = RangeFrames(Len(ex_frames))
          /\ ex_clock = RangeOf(ex_settings).start + Len(ex_frames)
          /\ ex_clock <= RangeOf(ex_settings).end
          /\ Len(ex_out) = Len(ex_frames)
  /\ (ex_pc = "done" /\ ex_status = "success")
       => ex_clock = RangeOf(ex_settings).end
  /\ ex_region # <<>> => ex_region = <<markers.start, markers.end>>

\* C34: an export renders exactly the frames of its time range, from the
\* start to the end, on a clock that only moves forward; the region made
\* from a song-range bounce starts at the start marker and ends at the
\* end marker, wherever the markers and the playhead are.
C34_ExportCoversRange ==
  /\ []CoversRange
  /\ [][(ExportRunning /\ ExportRunning') => ex_clock' >= ex_clock]_vars

\* the region of a bounce whose range starts after the beginning of the
\* project, is not a whole number of blocks and has the playhead past
\* its end
C34_Witness ==
  /\ ex_region = <<markers.start, markers.end>>
  /\ markers.start > 0
  /\ playhead > markers.end
  /\ block_length > 1
  /\ (markers.end - markers.start) % block_length # 0
  /\ ex_settings.time_range = "TIME_RANGE_SONG"
  /\ Len(ex_out) = markers.end - markers.start

(* ------------------------ track_lane.c --------------------------------- *)

\* the regions, as ZRegion pointers; 0 is no region
Regions == 1..MaxRegions

\* self->pos of the lane
LanePos == 1

laneRest == <<cycleSide, rateVars, functionVars, pluginVars, exportVars,
              appVars>>

\* no call so far has left a gap in the lane or accessed what it must
\* not: the calls after that are not followed
LaneSound == ~lane_gap /\ ~lane_fault

\* regions[0 .. num-1], the regions of the lane
Live(arr, num) == [i \in 1..num |-> arr[i]]

\* the regions of a sequence without region r
Without(seq, r) == SelectSeq(seq, LAMBDA x : x # r)

\* array_double_size_if_full: the new half holds no region
ArrayDoubleSizeIfFull(arr, num) ==
  IF num = Len(arr) THEN arr \o [i \in 1..Len(arr) |-> 0] ELSE arr

\* regions[i] = regions[i - 1] for i from num down to idx + 1
ShiftRight(arr, num, idx) ==
  [i \in 1..Len(arr) |->
     IF idx + 2 <= i /\ i <= num + 1 THEN arr[i - 1] ELSE arr[i]]

\* array_delete_confirm for the region stored at place p
ArrayDelete(arr, num, p) ==
  [i \in 1..Len(arr) |-> IF p <= i /\ i < num THEN arr[i + 1] ELSE arr[i]]

\* the ids after id.idx = i was stored in the regions at the places
\* from .. to of arr, the lowest place last
Reindexed(ids, arr, from, to) ==
  [q \in Regions |->
     IF \E i \in from..to : arr[i] = q
     THEN [ids[q] EXCEPT
             !.idx = (CHOOSE i \in from..to :
                        /\ arr[i] = q
                        /\ \A j \in from..to : arr[j] = q => i <= j) - 1]
     ELSE ids[q]]

\* clip_editor_get_region: the region the id designates, 0 for none
ResolveIn(arr, num, id) ==
  IF id = <<>> THEN 0
  ELSE IF id.lane_pos = LanePos /\ id.idx >= 0 /\ id.idx < num
       THEN arr[id.idx + 1]
       ELSE 0

\* track_lane_insert_region (self, region, idx), for a region that is not
\* in the lane
TrackLaneInsertRegion(r, idx) ==
  /\ LaneSound
  /\ num_regions < MaxRegions
  /\ idx >= 0
  /\ \A i \in 1..num_regions : lane_regions[i] # r
  /\ LET grown == ArrayDoubleSizeIfFull(lane_regions, num_regions)
         shifted == ShiftRight(grown, num_regions, idx)
         null == \E i \in (idx + 2)..(num_regions + 1) : shifted[i] = 0
         outside == idx >= Len(grown)
     IN /\ lane_regions' =
             IF outside THEN shifted ELSE [shifted EXCEPT ![idx + 1] = r]
        /\ region_id' =
             [Reindexed(region_id, shifted, idx + 2, num_regions + 1)
                EXCEPT ![r] = [lane_pos |-> LanePos, idx |-> idx]]
        /\ lane_fault' = (null \/ outside)
  /\ num_regions' = num_regions + 1
  /\ lane_gap' = (lane_gap \/ idx > num_regions)
  /\ lane_op' = [op |-> "insert", region |-> r, done |-> TRUE]
  /\ UNCHANGED <<laneRest, ce_id, lane_active>>

\* track_lane_add_region (self, region)
TrackLaneAddRegion(r) == TrackLaneInsertRegion(r, num_regions)

\* track_lane_remove_region (self, region)
TrackLaneRemoveRegion(r) ==
  /\ LaneSound
  /\ LET clip_editor_r == ResolveIn(lane_regions, num_regions, ce_id)
     IN ce_id' =
          IF /\ lane_active
             /\ clip_editor_r # 0
             /\ region_id[clip_editor_r].lane_pos = region_id[r].lane_pos
             /\ region_id[clip_editor_r].idx > region_id[r].idx
          THEN [ce_id EXCEPT !.idx = @ - 1]
          ELSE ce_id
  /\ IF \E p \in 1..num_regions : lane_regions[p] = r
     THEN LET p == CHOOSE i \in 1..num_regions :
                     /\ lane_regions[i] = r
                     /\ \A j \in 1..num_regions :
                          lane_regions[j] = r => i <= j
              left == ArrayDelete(lane_regions, num_regions, p)
              from == region_id[r].idx + 1
          IN /\ lane_regions' = left
             /\ num_regions' = num_regions - 1
             /\ region_id' = Reindexed(region_id, left, from, num_regions - 1)
             /\ lane_fault' =
                  \E i \in from..(num_regions - 1) : left[i] = 0
             /\ lane_op' = [op |-> "remove", region |-> r, done |-> TRUE]
     ELSE /\ lane_op' = [op |-> "remove", region |-> r, done |-> FALSE]
          /\ UNCHANGED <<lane_regions, num_regions, region_id, lane_fault>>
  /\ UNCHANGED <<laneRest, lane_active, lane_gap>>

\* the clip editor is set to a region of the lane
ClipEditorSetRegion(r) ==
  /\ LaneSound
  /\ \E p \in 1..num_regions : lane_regions[p] = r
  /\ ce_id # region_id[r]
  /\ ce_id' = region_id[r]
  /\ lane_op' = [op |-> "set", region |-> r, done |-> TRUE]
  /\ UNCHANGED <<laneRest, lane_regions, num_regions, region_id, lane_active,
                 lane_gap, lane_fault>>

LaneInsert ==
  \E r \in Regions, idx \in 0..MaxRegions : TrackLaneInsertRegion(r, idx)
LaneAdd == \E r \in Regions : TrackLaneAddRegion(r)
LaneRemove == \E r \in Regions : TrackLaneRemoveRegion(r)
LaneSetClipEditor == \E r \in Regions : ClipEditorSetRegion(r)

\* a new lane, regions put in it and taken out of it, and the clip editor
InitLane ==
  /\ CycleInit({[c \in Channels |-> Slots]}, {FALSE})
  /\ RateIdle
  /\ FunctionIdle
  /\ PluginIdle
  /\ ExportIdle
  /\ AppIdle
  /\ LaneNew
  /\ lane_active \in BOOLEAN
NextLane == LaneInsert \/ LaneAdd \/ LaneRemove \/ LaneSetClipEditor
SpecLane == InitLane /\ [][NextLane]_vars

\* every place below num_regions holds a region whose id says that lane
\* and that place
LaneIndexed ==
  \A i \in 1..num_regions :
    /\ lane_regions[i] # 0
    /\ region_id[lane_regions[i]] = [lane_pos |-> LanePos, idx |-> i - 1]

\* the call that has returned put a region in, or took one out
Inserted == lane_op' # lane_op /\ lane_op'.op = "insert"
Removed == lane_op' # lane_op /\ lane_op'.op = "remove" /\ lane_op'.done

\* a call changes num_regions by one and keeps the other regions in order
LaneStep ==
  /\ Inserted
       => /\ num_regions' = num_regions + 1
          /\ Without(Live(lane_regions', num_regions'), lane_op'.region)
               = Live(lane_regions, num_regions)
  /\ Removed
       => /\ num_regions' = num_regions - 1
          /\ Live(lane_regions', num_regions')
               = Without(Live(lane_regions, num_regions), lane_op'.region)

\* C35: after any sequence of inserts, adds and removes the other regions
\* keep their order, num_regions is the inserts minus the removes, and
\* the region at every place i below num_regions has id.idx = i and the
\* lane's pos as id.lane_pos.
C35_LaneKeepsOrderAndIndices ==
  /\ []LaneIndexed
  /\ [][LaneStep]_vars

\* the same as long as no region was inserted past the end of the lane
C35_HoldsWithoutGap ==
  /\ [](~lane_gap => (LaneIndexed /\ ~lane_fault))
  /\ [][~lane_gap' => LaneStep]_vars

\* the region the clip editor refers to
ClipEditorRegion == ResolveIn(lane_regions, num_regions, ce_id)

\* the clip editor's region is in the lane, after the region of the call
\* that has returned
AfterRemoved ==
  /\ ClipEditorRegion # 0
  /\ region_id[ClipEditorRegion].lane_pos = region_id[lane_op'.region].lane_pos
  /\ region_id[ClipEditorRegion].idx > region_id[lane_op'.region].idx

\* the stored index is decremented by one if the clip editor's region was
\* after the removed one, and is left as it was otherwise
IndexAdjusted ==
  ce_id' = IF AfterRemoved THEN [ce_id EXCEPT !.idx = @ - 1] ELSE ce_id

C40_HoldsForOtherRegions ==
  [][(Removed /\ lane_active)
       => /\ IndexAdjusted
          /\ (ClipEditorRegion # 0 /\ ClipEditorRegion # lane_op'.region)
               => ResolveIn(lane_regions', num_regions', ce_id')
                    = ClipEditorRegion
    ]_vars

(* ------------------------ engine_delete_port --------------------------- *)

\* C36: after any sequence of engine_delete_port calls the table holds
\* exactly the ports that were not deleted, in their original order,
\* num_ports is the initial number less the deletions, and the id of
\* every port in the table is its index, so that a deletion removes the
\* port passed to it.
C36_DeleteKeepsTable ==
  /\ Range(ports) = allocated \ removed
  /\ \A i, j \in 1..num_ports : i < j => ports[i] < ports[j]
  /\ num_ports = Cardinality(allocated) - Cardinality(removed)
  /\ \A i \in 1..num_ports : port_id[ports[i]] = i - 1

(* ------------------- apply_plugin's buffer indices --------------------- *)

\* C37: in apply_plugin, for every frame count, channel count, block
\* length and reported latency, every read and every write of the
\* interleaved frame buffer in the main pass and in the flush pass uses an
\* index in [0, N x channels), and both passes terminate: each turn of
\* either loop advances by at least one frame
C37_IndicesInBuffer ==
  /\ ~ap_oob
  /\ ap_pc \in {"main", "flush"} => ap_step >= 1

(* ------------------ pause requests under running cycles ---------------- *)

\* the transport looping over its range, so that cycles go on for ever
InitPause ==
  /\ InitWith({[c \in Channels |-> Slots]}, {TRUE})
  /\ block_length = 1

NextPause ==
  \/ ProcessCycle({<<>>})
  \/ RequestRoll
  \/ RequestPause
  \/ Waiter

SpecPause == InitPause /\ [][NextPause]_vars

\* JACK keeps calling jack_process_cb and each call runs to its return; a
\* thread blocked in zix_sem_wait resumes when the semaphore is posted
SpecPauseFair ==
  /\ SpecPause
  /\ WF_vars(ProcessCycle({<<>>}))
  /\ WF_vars(WaiterWake)

\* what may change while the run flag is clear and no cycle is under way:
\* the cycle takes no step, and only requests are stored in play_state
SkipChangesNothing ==
  (~run /\ rpc = "idle") =>
    /\ rpc' = "idle"
    /\ UNCHANGED <<playhead, paused, port_operation_lock, steps,
                   boundary_state, transitions, posts>>
    /\ play_state' \in {play_state, "ROLL_REQUESTED", "PAUSE_REQUESTED"}

\* C38: with the run flag set and cycles going on, every request_pause()
\* is eventually followed by the play state PAUSED, and a thread waiting
\* for the pause is eventually woken; a cycle invoked while the run flag
\* is clear makes no transition, takes no lock and leaves the playhead
C38_PauseTakesEffect ==
  /\ (run /\ play_state = "PAUSE_REQUESTED") ~> (play_state = "PAUSED")
  /\ (run /\ wpc = "waiting") ~> (wpc = "resumed")
  /\ [][SkipChangesNothing]_vars

(* ------------------ application start, zrythm_app.c -------------------- *)

appRest == <<cycleSide, rateVars, functionVars, pluginVars, exportVars,
             laneVars>>

\* exit (0) ends the GTK thread and the helper threads with it
AppRunning == gtk_pc # "exited"

\* zrythm_app_startup, lines 1248-1256: the init thread is started and
\* idle_func is added to the main loop
ZrythmAppStartup ==
  /\ gtk_pc = "startup"
  /\ init_pc' = "start"
  /\ idle_sources' = idle_sources + 1
  /\ gtk_pc' = "main"
  /\ UNCHANGED <<first_run, open_filename, init_finished, scan_pc, scanned,
                 prompts, app_view, appRest>>

\* init_thread, lines 314-354: directories, log, caches and files are set
\* up, then the first-run setting is read
InitThreadPrepare ==
  /\ AppRunning
  /\ init_pc = "start"
  /\ init_pc' = IF first_run THEN "finish" ELSE "scan"
  /\ UNCHANGED <<first_run, open_filename, init_finished, scan_pc, scanned,
                 gtk_pc, idle_sources, prompts, app_view, appRest>>

\* plugin_manager_scan_plugins, one plugin after the other
ScanPlugins(pc, next) ==
  IF scanned < MaxScan
  THEN /\ scanned' = scanned + 1
       /\ pc' = pc
  ELSE /\ pc' = next
       /\ scanned' = scanned

\* init_thread, lines 356-360
InitThreadScan ==
  /\ AppRunning
  /\ init_pc = "scan"
  /\ ScanPlugins(init_pc, "finish")
  /\ UNCHANGED <<first_run, open_filename, init_finished, scan_pc, gtk_pc,
                 idle_sources, prompts, app_view, appRest>>

\* init_thread, line 363
InitThreadFinish ==
  /\ AppRunning
  /\ init_pc = "finish"
  /\ init_finished' = TRUE
  /\ init_pc' = "done"
  /\ UNCHANGED <<first_run, open_filename, scan_pc, scanned, gtk_pc,
                 idle_sources, prompts, app_view, appRest>>

\* on_prompt_for_project, lines 470-555: what the application shows next
OnPromptForProject ==
  IF open_filename THEN "load_project"
  ELSE IF first_run THEN "first_run_assistant"
  ELSE "project_assistant"

\* idle_func, lines 377-393, called by the main loop while it is a source
IdleFunc ==
  /\ gtk_pc = "main"
  /\ idle_sources > 0
  /\ IF init_finished
     THEN /\ prompts' = prompts + 1
          /\ app_view' = OnPromptForProject
          /\ idle_sources' = idle_sources - 1
     ELSE UNCHANGED <<prompts, app_view, idle_sources>>
  /\ UNCHANGED <<first_run, open_filename, init_finished, init_pc, scan_pc,
                 scanned, gtk_pc, appRest>>

\* on_first_run_assistant_apply, lines 425-434: the setting is cleared and
\* the scan thread is started
ApplyStartScan ==
  /\ gtk_pc = "main"
  /\ app_view = "first_run_assistant"
  /\ first_run' = FALSE
  /\ scan_pc' = "scan"
  /\ gtk_pc' = "apply_reset"
  /\ UNCHANGED <<open_filename, init_finished, init_pc, scanned,
                 idle_sources, prompts, app_view, appRest>>

\* on_first_run_assistant_apply, line 438
ApplyReset ==
  /\ gtk_pc = "apply_reset"
  /\ init_finished' = FALSE
  /\ gtk_pc' = "apply_idle_add"
  /\ UNCHANGED <<first_run, open_filename, init_pc, scan_pc, scanned,
                 idle_sources, prompts, app_view, appRest>>

\* on_first_run_assistant_apply, lines 439-452: idle_func is added again
\* and the assistant is hidden
ApplyIdleAdd ==
  /\ gtk_pc = "apply_idle_add"
  /\ idle_sources' = idle_sources + 1
  /\ app_view' = "splash"
  /\ gtk_pc' = "main"
  /\ UNCHANGED <<first_run, open_filename, init_finished, init_pc, scan_pc,
                 scanned, prompts, appRest>>

OnFirstRunAssistantApply == ApplyStartScan \/ ApplyReset \/ ApplyIdleAdd

\* on_first_run_assistant_cancel, lines 455-461
OnFirstRunAssistantCancel ==
  /\ gtk_pc = "main"
  /\ app_view = "first_run_assistant"
  /\ gtk_pc' = "exited"
  /\ UNCHANGED <<first_run, open_filename, init_finished, init_pc, scan_pc,
                 scanned, idle_sources, prompts, app_view, appRest>>

\* scan_plugins_after_first_run_thread, lines 407-409
ScanThreadScan ==
  /\ AppRunning
  /\ scan_pc = "scan"
  /\ ScanPlugins(scan_pc, "finish")
  /\ UNCHANGED <<first_run, open_filename, init_finished, init_pc, gtk_pc,
                 idle_sources, prompts, app_view, appRest>>

\* scan_plugins_after_first_run_thread, line 411
ScanThreadFinish ==
  /\ AppRunning
  /\ scan_pc = "finish"
  /\ init_finished' = TRUE
  /\ scan_pc' = "done"
  /\ UNCHANGED <<first_run, open_filename, init_pc, scanned, gtk_pc,
                 idle_sources, prompts, app_view, appRest>>

\* the application as main () starts it: a first run or a later one, with
\* or without a project named on the command line
InitApp ==
  /\ CycleInit({[c \in Channels |-> Slots]}, {FALSE})
  /\ RateIdle
  /\ FunctionIdle
  /\ PluginIdle
  /\ ExportIdle
  /\ LaneIdle
  /\ first_run \in BOOLEAN
  /\ open_filename \in BOOLEAN
  /\ init_finished = FALSE
  /\ init_pc = "none"
  /\ scan_pc = "none"
  /\ scanned = 0
  /\ gtk_pc = "startup"
  /\ idle_sources = 0
  /\ prompts = 0
  /\ app_view = "splash"

NextApp ==
  \/ ZrythmAppStartup
  \/ InitThreadPrepare
  \/ InitThreadScan
  \/ InitThreadFinish
  \/ IdleFunc
  \/ OnFirstRunAssistantApply
  \/ OnFirstRunAssistantCancel
  \/ ScanThreadScan
  \/ ScanThreadFinish

SpecApp == InitApp /\ [][NextApp]_vars

\* the main loop keeps calling its idle sources, a running handler goes on
\* to its end, and the threads are scheduled; what the user does with the
\* assistant is left open
SpecAppFair ==
  /\ SpecApp
  /\ WF_vars(IdleFunc)
  /\ WF_vars(ApplyReset)
  /\ WF_vars(ApplyIdleAdd)
  /\ WF_vars(InitThreadPrepare)
  /\ WF_vars(InitThreadScan)
  /\ WF_vars(InitThreadFinish)
  /\ WF_vars(ScanThreadScan)
  /\ WF_vars(ScanThreadFinish)

\* the first-run assistant has been applied
AssistantApplied == scan_pc # "none"

\* the prompt that shows the first-run assistant is the first one
PromptedAgain == prompts >= 2

\* the flag as the scan thread left it is not cleared
FlagKept == (scan_pc = "done" /\ init_finished) => init_finished'

\* C39: after the first-run assistant is applied the project prompt is
\* activated exactly once, and only after the scan thread has finished,
\* whatever the interleaving of the scan thread and the GTK thread: the
\* flag the scan thread sets is never overwritten by the GTK thread's
\* reset, and the idle check does not wait for ever
C39_PromptOnceAfterScan ==
  /\ [](AssistantApplied => prompts <= 2)
  /\ []((AssistantApplied /\ PromptedAgain) => scan_pc = "done")
  /\ [][FlagKept]_vars
  /\ AssistantApplied ~> PromptedAgain

====
